---- MODULE Spec2Model ----
(***************************************************************************)
(* Task queue and result store of the distributed agent network            *)
(* (lib/messaging.py), with its producers, the domain runner's consumer    *)
(* loop (lib/domain_runner.py) and a sequential API client, and the agent  *)
(* registry (lib/registry.py).                                             *)
(*                                                                         *)
(* The shared store is Redis: a list per tasks:pending:{domain} and        *)
(* tasks:active:{domain}, a hash per results:{task_id}.  Every store call  *)
(* is atomic; a handler that makes several store calls is split at the     *)
(* calls in the concurrent specification Spec and runs whole in the        *)
(* sequential specification SpecSeq.                                       *)
(*                                                                         *)
(* The registry keys are the record reg.  A pipeline is one transaction    *)
(* (redis-py's default); deregister reads the record before its pipeline   *)
(* and is split there in SpecReg, and runs whole in SpecRegSeq.  The TTL   *)
(* of a lease is not counted: its expiry is the action Expire.             *)
(*                                                                         *)
(* The domain spawner (lib/spawner.py) talks to a container runtime, the   *)
(* function dock.  The runtime starts, ends and restarts containers and    *)
(* reports their health on its own; a spawner call that makes several      *)
(* runtime requests is split at the requests (the record spn).             *)
(***************************************************************************)
EXTENDS Integers, Sequences, FiniteSets, TLC

\* ---------------------------------------------------------------- bounds
\* number of publish_task calls (uuid4 values handed out)
MaxTasks == 2
\* last value of the wall clock
MaxTime == 1
\* tasks published while a caller waits on the clock
MaxWaitTasks == 1

\* ------------------------------------------------------------ input sets
Domains == {"backend", "frontend"}
Producers == {"p1"}
Consumers == {"c1", "c2"}
\* the processes of the fair specification
LiveProducers == {"p1"}
LiveConsumers == {"c1"}

TaskIds == 1..MaxTasks
\* no task id (a process that holds no task)
NoId == 0
\* Python's None
None == "None"
\* output dicts a caller passes to publish_result
Outputs == {"dict{}", "dict{done:true}"}
TerminalStatuses == {"completed", "failed"}
\* timeouts a caller passes to wait_for_result
Timeouts == {1}

\* ----------------------------------------------------- TaskMessage (18-36)
\* the fields of a TaskMessage that the store operations depend on
TaskMessage(id, domain) == [task_id |-> id, destination |-> domain]
NoTask == TaskMessage(NoId, "None")

\* datetime.now(timezone.utc).isoformat() at clock value n
Isoformat(n) == "T" \o ToString(n)

\* ------------------------------------------------------- Redis primitives
\* variant: RPUSH, insert at the tail
LPushAtTail(list, x) == Append(list, x)

\* LPUSH key x: insert at the head (index 1) of the list
LPush(list, x) == <<x>> \o list

\* the element RPOPLPUSH takes: the tail of the source
RPopElem(src) == src[Len(src)]
\* variant: the element is copied, the source keeps it
RPopRestKeep(src) == src

\* source list after RPOPLPUSH
RPopRest(src) == SubSeq(src, 1, Len(src) - 1)

\* index of the first occurrence of x from the head, 0 when absent
RECURSIVE IndexFrom(_, _, _)
IndexFrom(list, x, i) ==
    IF i > Len(list) THEN 0
    ELSE IF list[i] = x THEN i
    ELSE IndexFrom(list, x, i + 1)

\* variant: LPOP, remove the head whatever it is
LRem1Head(list, x) == IF list = <<>> THEN list ELSE Tail(list)

\* LREM key 1 x: remove the first occurrence of x, head to tail
LRem1(list, x) ==
    LET i == IndexFrom(list, x, 1)
    IN  IF i = 0 THEN list
        ELSE SubSeq(list, 1, i - 1) \o SubSeq(list, i + 1, Len(list))

\* a hash that does not exist
EmptyHash == [f \in {} |-> None]

\* HSET key mapping: set the given fields, keep the others
HSet(h, m) ==
    [f \in (DOMAIN h) \cup (DOMAIN m) |-> IF f \in DOMAIN m THEN m[f] ELSE h[f]]

\* what HSET returns: the number of fields it added
HSetAdded(h, m) == Cardinality((DOMAIN m) \ (DOMAIN h))

\* ------------------------------------------------------ TaskResult (39-54)
\* TaskResult.to_dict of TaskResult(task_id=id, status=st): None fields dropped
ToDict(id, st) ==
    [f \in {"task_id", "status"} |-> IF f = "task_id" THEN id ELSE st]

\* json.dumps of an output dict
JsonDumps(o) ==
    CASE o = "dict{}" -> "{}"
      [] o = "dict{done:true}" -> "{\"done\": true}"
      [] OTHER -> "null"

\* json.loads of a stored string; a string that is no JSON stays as it is
JsonLoads(s) ==
    CASE s = "{}" -> "dict{}"
      [] s = "{\"done\": true}" -> "dict{done:true}"
      [] s = "null" -> None
      [] OTHER -> s

\* what get_result hands back: a TaskResult, None, or a raised ValidationError
NoResult ==
    [kind |-> "none", task_id |-> NoId, status |-> None, output |-> None,
     error |-> None, started_at |-> None, completed_at |-> None]
ValidationError == [NoResult EXCEPT !.kind = "error"]

Field(h, f, default) == IF f \in DOMAIN h THEN h[f] ELSE default

\* get_result(task_id) with timeout = 0, on the stored hash h
GetResult(h) ==
    IF DOMAIN h = {} THEN NoResult
    ELSE IF "task_id" \notin DOMAIN h THEN ValidationError
    ELSE [kind |-> "result",
          task_id |-> h["task_id"],
          status |-> Field(h, "status", "pending"),
          output |-> IF "output" \in DOMAIN h /\ h["output"] # ""
                     THEN JsonLoads(h["output"]) ELSE Field(h, "output", None),
          error |-> Field(h, "error", None),
          started_at |-> Field(h, "started_at", None),
          completed_at |-> Field(h, "completed_at", None)]

\* variant: the result record is not initialised
InitResultSkip(res, id) == res

\* _init_result(task_id) on the result store res
InitResult(res, id) == [res EXCEPT ![id] = HSet(@, ToDict(id, "pending"))]

\* variant: started_at is not stamped
UpdateResultNoStamp(res, id, st, t) ==
    [res EXCEPT ![id] = HSet(@, [f \in {"status"} |-> st])]

\* variant: the record is replaced by the given fields instead of merged
UpdateResultReplace(res, id, st, t) ==
    [res EXCEPT ![id] = [f \in {"status", "started_at"} |->
                            IF f = "status" THEN st ELSE Isoformat(t)]]

\* _update_result(task_id, status=st) on the result store res at time t
UpdateResult(res, id, st, t) ==
    LET kwargs == IF st = "in_progress"
                  THEN [f \in {"status", "started_at"} |->
                           IF f = "status" THEN st ELSE Isoformat(t)]
                  ELSE [f \in {"status"} |-> st]
    IN  [res EXCEPT ![id] = HSet(@, kwargs)]

\* result_data of publish_result(task_id, output, status, error) at time t
ResultData(output, status, error, t) ==
    LET base == {"status", "output", "completed_at"}
        flds == IF error # None /\ error # "" THEN base \cup {"error"} ELSE base
    IN  [f \in flds |->
            CASE f = "status" -> status
              [] f = "output" -> JsonDumps(output)
              [] f = "completed_at" -> Isoformat(t)
              [] OTHER -> error]

\* the hset of publish_result on the result store res
StoreResult(res, id, output, status, error, t) ==
    [res EXCEPT ![id] = HSet(@, ResultData(output, status, error, t))]

\* arguments of a publish_result call
ResultArgs(output, status, error) ==
    [output |-> output, status |-> status, error |-> error]
NoArgs == ResultArgs(None, None, None)
\* the calls process_task makes (domain_runner.py 96-123): completed with the
\* run's output and no error, failed with an error
RunnerArgs ==
    {ResultArgs("dict{done:true}", "completed", None),
     ResultArgs("dict{}", "failed", "boom")}

\* the calls a client of publish_result can make (209-215): status is any
\* string
ApiArgs == RunnerArgs \cup {ResultArgs("dict{}", "cancelled", None)}

\* ============================================================ registry.py
Agents == {"a1", "a2"}
Roles == {"main", "domain", "worker"}
\* domain types of the agents:domains:{type} sets
RegTypes == {"backend"}
\* the (role, domain_type) pairs register is called with
RegisterArgs ==
    {<<"main", None>>, <<"domain", "backend">>, <<"worker", None>>}
\* the values update_status is called with by set_busy and set_active
Statuses == {"busy", "active"}
\* the values of the status field (line 22)
AllStatuses == {"starting", "active", "busy", "stopping"}

\* the registry keys of the store before any call: agents:all, agents:main,
\* agents:domains, agents:domains:{type}, agents:workers, agents:info:{id},
\* agents:heartbeat:{id} (None = the key does not exist)
EmptyRegistry ==
    [all |-> {}, main |-> None, domains |-> {},
     byType |-> [t \in RegTypes |-> {}], workers |-> {},
     info |-> [a \in Agents |-> EmptyHash],
     heartbeat |-> [a \in Agents |-> None]]

\* ------------------------------------------------------- AgentInfo (16-34)
\* AgentInfo(agent_id, role, domain_type, container_id=None,
\* status="active").to_dict(): the None fields are dropped
AgentToDict(a, role, dtype, t) ==
    [f \in {"agent_id", "role", "status", "created_at"}
            \cup (IF dtype # None THEN {"domain_type"} ELSE {}) |->
        CASE f = "agent_id" -> a
          [] f = "role" -> role
          [] f = "status" -> "active"
          [] f = "created_at" -> Isoformat(t)
          [] OTHER -> dtype]

NoAgent ==
    [kind |-> "none", agent_id |-> None, role |-> None, domain_type |-> None,
     status |-> None, last_heartbeat |-> None]
AgentValidationError == [NoAgent EXCEPT !.kind = "error"]

\* lines 176-189: get_agent: hgetall, None for an empty hash, otherwise
\* AgentInfo.from_dict: agent_id and role are required, status defaults to
\* "starting", the optional fields to None
GetAgent(R, a) ==
    LET h == R.info[a]
    IN  IF DOMAIN h = {} THEN NoAgent
        ELSE IF ~({"agent_id", "role"} \subseteq DOMAIN h)
        THEN AgentValidationError
        ELSE [kind |-> "agent",
              agent_id |-> h["agent_id"],
              role |-> h["role"],
              domain_type |-> Field(h, "domain_type", None),
              status |-> Field(h, "status", "starting"),
              last_heartbeat |-> Field(h, "last_heartbeat", None)]

\* lines 101-133: the pipeline of register, one transaction
RegisterStore(R, a, role, dtype, t) ==
    [R EXCEPT !.info[a] = HSet(@, AgentToDict(a, role, dtype, t)),
              !.all = @ \cup {a},
              !.main = IF role = "main" THEN a ELSE @,
              !.domains = IF role = "domain" THEN @ \cup {a} ELSE @,
              !.byType = IF role = "domain" /\ dtype # None
                         THEN [@ EXCEPT ![dtype] = @ \cup {a}] ELSE @,
              !.workers = IF role = "worker" THEN @ \cup {a} ELSE @,
              !.heartbeat[a] = Isoformat(t)]

\* lines 151-170: the pipeline of deregister, one transaction, for the
\* AgentInfo inf that get_agent returned
DeregisterStore(R, a, inf) ==
    [R EXCEPT !.all = @ \ {a},
              !.main = IF inf.role = "main" THEN None ELSE @,
              !.domains = IF inf.role = "domain" THEN @ \ {a} ELSE @,
              !.byType = IF inf.role = "domain" /\ inf.domain_type # None
                         THEN [@ EXCEPT ![inf.domain_type] = @ \ {a}] ELSE @,
              !.workers = IF inf.role = "worker" THEN @ \ {a} ELSE @,
              !.info[a] = EmptyHash,
              !.heartbeat[a] = None]

\* a variant of HeartbeatStore that leaves the lease alone
HeartbeatNoLease(R, a, t) ==
    [R EXCEPT !.info[a] = HSet(@, [f \in {"last_heartbeat"} |-> Isoformat(t)])]

\* lines 283-288: the pipeline of heartbeat: setex of the lease, hset of
\* last_heartbeat
HeartbeatStore(R, a, t) ==
    [R EXCEPT !.heartbeat[a] = Isoformat(t),
              !.info[a] = HSet(@, [f \in {"last_heartbeat"} |-> Isoformat(t)])]

\* line 302: exists agents:heartbeat:{id} > 0
IsHealthy(R, a) == R.heartbeat[a] # None

\* lines 311-318: the ids of agents:all that are not healthy
GetUnhealthyAgents(R) == {a \in R.all : ~IsHealthy(R, a)}

\* line 348: hset agents:info:{id} status
\* a variant of UpdateStatusStore that writes the record anew
UpdateStatusReplace(R, a, st) ==
    [R EXCEPT !.info[a] = [f \in {"agent_id", "status"} |->
                              IF f = "status" THEN st ELSE a]]

UpdateStatusStore(R, a, st) ==
    [R EXCEPT !.info[a] = HSet(@, [f \in {"status"} |-> st])]

\* lines 191-214: list_agents(): get_agent of every id of agents:all, the
\* ids without a record left out; a record that is not an AgentInfo raises
ListAgents(R) ==
    LET found == {GetAgent(R, a) : a \in R.all} \ {NoAgent}
    IN  IF AgentValidationError \in found THEN {AgentValidationError} ELSE found

\* lines 216-221: get_main_orchestrator(): the agent named by the key
\* agents:main, None when the key does not exist
GetMainOrchestrator(R) ==
    IF R.main # None THEN GetAgent(R, R.main) ELSE NoAgent

\* lines 237-246: get_domain_orchestrators(domain_type): get_agent of every
\* id of agents:domains:{type}, the ids without a record left out; one
\* record that is not an AgentInfo raises
DomainOrchestrators(R, t) ==
    {GetAgent(R, a) : a \in {b \in R.byType[t] : GetAgent(R, b).kind # "none"}}

\* lines 260-262: the orchestrators with status active and a lease
Available(R, t) ==
    {d \in DomainOrchestrators(R, t) :
        d.status = "active" /\ IsHealthy(R, d.agent_id)}

\* lines 248-269: what find_available_domain(t) can return: the
\* ValidationError, the first available orchestrator in the order of
\* smembers (any of them), or None
FindAvailableDomain(R, t) ==
    IF \E d \in DomainOrchestrators(R, t) : d.kind = "error"
    THEN {AgentValidationError}
    ELSE IF Available(R, t) # {} THEN Available(R, t) ELSE {NoAgent}

\* no cleanup_dead_agents call is running
NoSweep ==
    [pc |-> "idle", todo |-> {}, dead |-> {}, arg |-> None, info |-> NoAgent,
     removed |-> {}]

\* what a registry call returned
NoReturn == [op |-> "none", agent |-> None, val |-> None, removed |-> {}]
Returned(op, a, val) == [op |-> op, agent |-> a, val |-> val, removed |-> {}]

\* lines 137-172: deregister run alone: the store afterwards and the return
\* value (a ValidationError of get_agent propagates)
Deregister(R, a) ==
    LET inf == GetAgent(R, a)
    IN  CASE inf.kind = "none" -> [reg |-> R, val |-> "False"]
          [] inf.kind = "error" -> [reg |-> R, val |-> "error"]
          [] OTHER -> [reg |-> DeregisterStore(R, a, inf), val |-> "True"]

\* lines 327-333: cleanup_dead_agents run alone, the unhealthy ids taken in
\* the order todo: the store afterwards, the ids removed, and whether a
\* ValidationError ended the loop
RECURSIVE CleanupLoop(_, _, _)
CleanupLoop(R, todo, removed) ==
    IF todo = <<>> THEN [reg |-> R, val |-> "list", removed |-> removed]
    ELSE LET d == Deregister(R, Head(todo))
         IN  IF d.val = "error"
             THEN [reg |-> R, val |-> "error", removed |-> removed]
             ELSE CleanupLoop(d.reg, Tail(todo),
                              IF d.val = "True" THEN removed \cup {Head(todo)}
                              ELSE removed)

\* the orders in which a set of ids can be iterated
Orders(S) ==
    {q \in [1..Cardinality(S) -> S] : \A x \in S : \E i \in DOMAIN q : q[i] = x}

\* ------------------------------------------------------------------ state
\* no pair of concurrent register calls is running
NoCalls ==
    [pc |-> "idle", agent |-> None, base |-> EmptyRegistry,
     args |-> <<<<None, None>>, <<None, None>>>>, pending |-> {}]

\* the keys of the registry that belong to agent a: its record, the
\* membership sets that contain its id, and its lease
AgentKeys(R, a) ==
    [info |-> R.info[a],
     all |-> a \in R.all,
     main |-> R.main = a,
     domains |-> a \in R.domains,
     byType |-> {t \in RegTypes : a \in R.byType[t]},
     workers |-> a \in R.workers,
     heartbeat |-> R.heartbeat[a]]

\* ============================================================= spawner.py

\* the domain ids uuid4 gives to the containers of spawn_domain, and a
\* container of the host that carries none of the spawner's labels
DomainIds == {"d1", "d2"}
Unmanaged == {"u1"}
ContainerIds == DomainIds \cup Unmanaged
ContainerStatuses == {"created", "running", "exited", "dead"}
HealthValues == {"healthy", "unhealthy", "starting", "none"}
SpawnTimeouts == {0, 1}

\* a container: its status (absent: not created yet, removed: removed),
\* State.Health.Status (None: no Health in its attributes), and whether
\* a stop request stopped it (the restart policy unless-stopped then
\* leaves it alone)
NoContainer == [status |-> "absent", health |-> None, manual |-> FALSE]
InitContainers ==
    [c \in ContainerIds |->
        IF c \in Unmanaged THEN [NoContainer EXCEPT !.status = "exited"]
        ELSE NoContainer]

ContainerExists(D, c) == D[c].status \in ContainerStatuses

\* containers.list(all=True, label managed=true)
ManagedContainers(D) == {c \in DomainIds : ContainerExists(D, c)}

\* _find_container_by_domain_id: the container with the domain-id label
FindContainerByDomainId(D, id) ==
    IF id \in DomainIds /\ ContainerExists(D, id) THEN id ELSE None

\* _get_container_health
GetContainerHealth(D, c) == D[c].health

\* get_domain: the DomainInfo of the container, or None
NoDomain == [kind |-> "none", domain_id |-> None, status |-> None, health |-> None]
GetDomain(D, id) ==
    IF FindContainerByDomainId(D, id) = None THEN NoDomain
    ELSE [kind |-> "domain", domain_id |-> id, status |-> D[id].status,
          health |-> GetContainerHealth(D, id)]

\* list_domains()
ListDomains(D) == {GetDomain(D, c) : c \in ManagedContainers(D)}

\* a variant of IsDomainHealthy that does not look at the health probe
IsDomainHealthyNoProbe(D, id) ==
    LET domain == GetDomain(D, id)
    IN  IF domain.kind = "none" THEN FALSE
        ELSE domain.status = "running"

\* is_domain_healthy
IsDomainHealthy(D, id) ==
    LET domain == GetDomain(D, id)
    IN  IF domain.kind = "none" THEN FALSE
        ELSE IF domain.status # "running" THEN FALSE
        ELSE IF domain.health # None THEN domain.health = "healthy"
        ELSE TRUE

\* container.logs(tail=50)
Logs(c) == "logs of " \o c

\* what a spawner call returned or raised
NoValue == [kind |-> "none", val |-> None, logs |-> None]
Value(v) == [kind |-> "value", val |-> v, logs |-> None]
DockerException(msg, logs) == [kind |-> "DockerException", val |-> msg, logs |-> logs]

\* no spawner call is running
NoCall ==
    [pc |-> "idle", op |-> "none", id |-> None, deadline |-> 0,
     polled |-> FALSE, calls |-> <<>>, todo |-> {}, removed |-> {},
     ret |-> NoValue]

\* stop_domain returns v: to its caller, or to the loop of the cleanup that
\* called it (lines 396-397, 414-415: True appends the id to removed)
StopReturned(s, v) ==
    IF s.op = "stop_domain"
    THEN [s EXCEPT !.pc = "idle", !.ret = Value(v)]
    ELSE [s EXCEPT !.pc = "loop",
                   !.removed = IF v = "True" THEN @ \cup {s.id} ELSE @]

\* stop_domain raises e: the exception also ends a cleanup that called it
StopRaised(s, e) == [s EXCEPT !.pc = "idle", !.ret = e]

VARIABLES
    pending,    \* tasks:pending:{domain}, a list of TaskMessage, index 1 = head
    active,     \* tasks:active:{domain}
    results,    \* results:{task_id}, a hash
    nextId,     \* the next uuid4 value
    now,        \* wall clock
    ppc,        \* producer: idle, init, notify, wait
    ptask,      \* producer: the TaskMessage of the running publish_task
    pret,       \* producer: the task_id publish_task returned last
    pdeadline,  \* producer: deadline of the running wait_for_result
    pres,       \* producer: what wait_for_result returned last
    cpc,        \* consumer: idle, update, work, notify, complete, crashed
    ctask,      \* consumer: the TaskMessage it dequeued
    cargs,      \* consumer: arguments of its publish_result call
    pushed,     \* history: task ids in the order of their lpush, per domain
    popped,     \* history: task ids in the order of their rpoplpush, per domain
    completed,  \* history: task ids complete_task was called for
    pinbox,     \* producer: a message on results:{task_id} waits in its pubsub
    reg,        \* the registry keys of the store
    dpc,        \* deregister in progress: idle, pipe
    darg,       \* deregister in progress: its agent_id
    dinfo,      \* deregister in progress: the AgentInfo get_agent returned
    rret,       \* what the last call returned, if it was deregister or
                \* cleanup_dead_agents
    sweep,      \* cleanup_dead_agents in progress: its position and locals
    rcalls,     \* two concurrent register calls for one agent_id in progress
    dock,       \* the container runtime: the state of every container
    spn         \* the spawner call in progress and what the last call returned

storeVars == <<pending, active, results, nextId>>
prodVars == <<ppc, ptask, pret, pdeadline, pres>>
consVars == <<cpc, ctask, cargs>>
histVars == <<pushed, popped, completed>>
subVars == <<pinbox>>
msgVars == <<storeVars, now, prodVars, consVars, histVars, subVars>>
regVars == <<reg, dpc, darg, dinfo, rret, sweep, rcalls>>
spawnVars == <<dock, spn>>
vars == <<msgVars, regVars, spawnVars>>

Init ==
    /\ pending = [d \in Domains |-> <<>>]
    /\ active = [d \in Domains |-> <<>>]
    /\ results = [t \in TaskIds |-> EmptyHash]
    /\ nextId = 1
    /\ now = 0
    /\ ppc = [p \in Producers |-> "idle"]
    /\ ptask = [p \in Producers |-> NoTask]
    /\ pret = [p \in Producers |-> NoId]
    /\ pdeadline = [p \in Producers |-> 0]
    /\ pres = [p \in Producers |-> NoResult]
    /\ cpc = [c \in Consumers |-> "idle"]
    /\ ctask = [c \in Consumers |-> NoTask]
    /\ cargs = [c \in Consumers |-> NoArgs]
    /\ pushed = [d \in Domains |-> <<>>]
    /\ popped = [d \in Domains |-> <<>>]
    /\ completed = {}
    /\ pinbox = [p \in Producers |-> FALSE]
    /\ reg = EmptyRegistry
    /\ dpc = "idle"
    /\ darg = None
    /\ dinfo = NoAgent
    /\ rret = NoReturn
    /\ sweep = NoSweep
    /\ rcalls = NoCalls
    /\ dock = InitContainers
    /\ spn = NoCall

\* time passes
Tick ==
    /\ now < MaxTime
    /\ now' = now + 1
    /\ UNCHANGED <<storeVars, prodVars, consVars, histVars>>
    /\ UNCHANGED subVars
    /\ UNCHANGED <<regVars, spawnVars>>

\* ------------------------------------------------- publish_task (108-157)
\* lines 133-149: build the TaskMessage with a fresh task_id, lpush it
PublishLPush(p, d) ==
    /\ ppc[p] = "idle"
    /\ nextId <= MaxTasks
    /\ LET task == TaskMessage(nextId, d)
       IN  /\ pending' = [pending EXCEPT ![d] = LPush(@, task)]
           /\ ptask' = [ptask EXCEPT ![p] = task]
           /\ pushed' = [pushed EXCEPT ![d] = Append(@, nextId)]
    /\ nextId' = nextId + 1
    /\ ppc' = [ppc EXCEPT ![p] = "init"]
    /\ UNCHANGED <<active, results, now, pret, pdeadline, pres, consVars,
                   popped, completed>>
    /\ UNCHANGED subVars
    /\ UNCHANGED <<regVars, spawnVars>>

\* line 152: self._init_result(task.task_id)
PublishInit(p) ==
    /\ ppc[p] = "init"
    /\ results' = InitResult(results, ptask[p].task_id)
    /\ ppc' = [ppc EXCEPT ![p] = "notify"]
    /\ UNCHANGED <<pending, active, nextId, now, ptask, pret, pdeadline, pres,
                   consVars, histVars>>
    /\ UNCHANGED subVars
    /\ UNCHANGED <<regVars, spawnVars>>

\* lines 155-157: publish on notifications:{domain} (no subscriber), return
PublishNotify(p) ==
    /\ ppc[p] = "notify"
    /\ pret' = [pret EXCEPT ![p] = ptask[p].task_id]
    /\ ptask' = [ptask EXCEPT ![p] = NoTask]
    /\ ppc' = [ppc EXCEPT ![p] = "idle"]
    /\ UNCHANGED <<storeVars, now, pdeadline, pres, consVars, histVars>>
    /\ UNCHANGED subVars
    /\ UNCHANGED <<regVars, spawnVars>>

\* ------------------------------------------- wait_for_result (283-305)
\* line 297: deadline = time.time() + timeout, for the task_id returned last
WaitStart(p, timeout) ==
    /\ ppc[p] = "idle"
    /\ pret[p] # NoId
    /\ pdeadline' = [pdeadline EXCEPT ![p] = now + timeout]
    /\ ppc' = [ppc EXCEPT ![p] = "wait"]
    /\ UNCHANGED <<storeVars, now, ptask, pret, pres, consVars, histVars>>
    /\ UNCHANGED subVars
    /\ UNCHANGED <<regVars, spawnVars>>

\* a variant of WaitPoll that returns whatever record it finds
WaitPollAny(p) ==
    /\ ppc[p] = "wait"
    /\ now < pdeadline[p]
    /\ LET r == GetResult(results[pret[p]])
       IN  IF r.kind # "none"
           THEN /\ pres' = [pres EXCEPT ![p] = r]
                /\ ppc' = [ppc EXCEPT ![p] = "idle"]
           ELSE UNCHANGED <<pres, ppc>>
    /\ UNCHANGED <<storeVars, now, ptask, pret, pdeadline, consVars, histVars>>
    /\ UNCHANGED subVars
    /\ UNCHANGED <<regVars, spawnVars>>

\* lines 299-303: one round of the loop before the deadline: get_result, then
\* return a terminal result (a ValidationError of get_result propagates) or sleep
WaitPoll(p) ==
    /\ ppc[p] = "wait"
    /\ now < pdeadline[p]
    /\ LET r == GetResult(results[pret[p]])
       IN  IF r.kind = "error" \/ (r.kind = "result" /\ r.status \in TerminalStatuses)
           THEN /\ pres' = [pres EXCEPT ![p] = r]
                /\ ppc' = [ppc EXCEPT ![p] = "idle"]
           ELSE UNCHANGED <<pres, ppc>>
    /\ UNCHANGED <<storeVars, now, ptask, pret, pdeadline, consVars, histVars>>
    /\ UNCHANGED subVars
    /\ UNCHANGED <<regVars, spawnVars>>

\* lines 299, 305: the deadline has passed, return None
WaitTimeout(p) ==
    /\ ppc[p] = "wait"
    /\ now >= pdeadline[p]
    /\ pres' = [pres EXCEPT ![p] = NoResult]
    /\ ppc' = [ppc EXCEPT ![p] = "idle"]
    /\ UNCHANGED <<storeVars, now, ptask, pret, pdeadline, consVars, histVars>>
    /\ UNCHANGED subVars
    /\ UNCHANGED <<regVars, spawnVars>>

\* ------------------------------------ get_result with timeout > 0 (238-281)
\* lines 255-256: a pubsub is subscribed to results:{task_id} from subscribe()
\* until close()
Subscribed(p, id) == ppc[p] \in {"gmsg", "gpoll"} /\ pret[p] = id

\* lines 253-258: subscribe to the channel of the task_id returned last, then
\* deadline = time.time() + timeout
GetSubscribe(p, timeout) ==
    /\ ppc[p] = "idle"
    /\ pret[p] # NoId
    /\ pdeadline' = [pdeadline EXCEPT ![p] = now + timeout]
    /\ pinbox' = [pinbox EXCEPT ![p] = FALSE]
    /\ ppc' = [ppc EXCEPT ![p] = "gmsg"]
    /\ UNCHANGED <<storeVars, now, ptask, pret, pres, consVars, histVars>>
    /\ UNCHANGED <<regVars, spawnVars>>

\* lines 259-262: before the deadline, get_message(timeout=1): a message of
\* type "message" ends the loop, anything else (nothing, or the confirmation
\* of the subscription) goes on to the poll of the record
GetMessage(p) ==
    /\ ppc[p] = "gmsg"
    /\ now < pdeadline[p]
    /\ ppc' = [ppc EXCEPT ![p] = IF pinbox[p] THEN "gread" ELSE "gpoll"]
    /\ pinbox' = [pinbox EXCEPT ![p] = FALSE]
    /\ UNCHANGED <<storeVars, now, ptask, pret, pdeadline, pres, consVars,
                   histVars>>
    /\ UNCHANGED <<regVars, spawnVars>>

\* lines 264-267: hgetall of the record; a terminal status ends the loop
GetPoll(p) ==
    /\ ppc[p] = "gpoll"
    /\ ppc' = [ppc EXCEPT ![p] =
                 IF Field(results[pret[p]], "status", None) \in TerminalStatuses
                 THEN "gread" ELSE "gmsg"]
    /\ UNCHANGED <<storeVars, now, ptask, pret, pdeadline, pres, consVars,
                   histVars, subVars>>
    /\ UNCHANGED <<regVars, spawnVars>>

\* line 259: the deadline has passed, the loop ends
GetDeadline(p) ==
    /\ ppc[p] = "gmsg"
    /\ now >= pdeadline[p]
    /\ ppc' = [ppc EXCEPT ![p] = "gread"]
    /\ UNCHANGED <<storeVars, now, ptask, pret, pdeadline, pres, consVars,
                   histVars, subVars>>
    /\ UNCHANGED <<regVars, spawnVars>>

\* lines 269-281: close the pubsub, read the record and return it as a
\* TaskResult (None when it is empty)
GetRead(p) ==
    /\ ppc[p] = "gread"
    /\ pres' = [pres EXCEPT ![p] = GetResult(results[pret[p]])]
    /\ pinbox' = [pinbox EXCEPT ![p] = FALSE]
    /\ ppc' = [ppc EXCEPT ![p] = "idle"]
    /\ UNCHANGED <<storeVars, now, ptask, pret, pdeadline, consVars, histVars>>
    /\ UNCHANGED <<regVars, spawnVars>>

\* ------------------------------------------------ get_next_task (159-185)
\* a variant of GetNextPop that copies the tail of pending to active and
\* leaves it in pending
GetNextPopPeek(c, d) ==
    /\ cpc[c] = "idle"
    /\ pending[d] # <<>>
    /\ LET task == RPopElem(pending[d])
       IN  /\ active' = [active EXCEPT ![d] = LPush(@, task)]
           /\ ctask' = [ctask EXCEPT ![c] = task]
           /\ popped' = [popped EXCEPT ![d] = Append(@, task.task_id)]
    /\ cpc' = [cpc EXCEPT ![c] = "update"]
    /\ UNCHANGED <<pending, results, nextId, now, prodVars, cargs, pushed,
                   completed>>
    /\ UNCHANGED subVars
    /\ UNCHANGED <<regVars, spawnVars>>

\* lines 170-178: rpoplpush / brpoplpush moves the tail of pending to the
\* head of active in one store call
GetNextPop(c, d) ==
    /\ cpc[c] = "idle"
    /\ pending[d] # <<>>
    /\ LET task == RPopElem(pending[d])
       IN  /\ pending' = [pending EXCEPT ![d] = RPopRest(@)]
           /\ active' = [active EXCEPT ![d] = LPush(@, task)]
           /\ ctask' = [ctask EXCEPT ![c] = task]
           /\ popped' = [popped EXCEPT ![d] = Append(@, task.task_id)]
    /\ cpc' = [cpc EXCEPT ![c] = "update"]
    /\ UNCHANGED <<results, nextId, now, prodVars, cargs, pushed, completed>>
    /\ UNCHANGED subVars
    /\ UNCHANGED <<regVars, spawnVars>>

\* lines 180-183: _update_result(task_id, status="in_progress"), return the task
GetNextUpdate(c) ==
    /\ cpc[c] = "update"
    /\ results' = UpdateResult(results, ctask[c].task_id, "in_progress", now)
    /\ cpc' = [cpc EXCEPT ![c] = "work"]
    /\ UNCHANGED <<pending, active, nextId, now, prodVars, ctask, cargs,
                   histVars>>
    /\ UNCHANGED subVars
    /\ UNCHANGED <<regVars, spawnVars>>

\* ----------------------------------------------- publish_result (209-236)
\* lines 225-233, called by process_task (domain_runner.py 96-113)
ResultHSet(c, args) ==
    /\ cpc[c] = "work"
    /\ results' = StoreResult(results, ctask[c].task_id, args.output,
                              args.status, args.error, now)
    /\ cargs' = [cargs EXCEPT ![c] = args]
    /\ cpc' = [cpc EXCEPT ![c] = "notify"]
    /\ UNCHANGED <<pending, active, nextId, now, prodVars, ctask, histVars>>
    /\ UNCHANGED subVars
    /\ UNCHANGED <<regVars, spawnVars>>

\* line 236: publish on results:{task_id}: the message reaches every pubsub
\* subscribed to the channel at this moment and nobody else, return
ResultNotify(c) ==
    /\ cpc[c] = "notify"
    /\ pinbox' = [p \in Producers |->
                     pinbox[p] \/ Subscribed(p, ctask[c].task_id)]
    /\ cpc' = [cpc EXCEPT ![c] = "complete"]
    /\ UNCHANGED <<storeVars, now, prodVars, ctask, cargs, histVars>>
    /\ UNCHANGED <<regVars, spawnVars>>

\* ------------------------------------------------ complete_task (187-190)
\* called by process_task with the runner's domain (domain_runner.py 125-128)
CompleteTask(c) ==
    /\ cpc[c] = "complete"
    /\ active' = [active EXCEPT ![ctask[c].destination] = LRem1(@, ctask[c])]
    /\ completed' = completed \cup {ctask[c].task_id}
    /\ ctask' = [ctask EXCEPT ![c] = NoTask]
    /\ cargs' = [cargs EXCEPT ![c] = NoArgs]
    /\ cpc' = [cpc EXCEPT ![c] = "idle"]
    /\ UNCHANGED <<pending, results, nextId, now, prodVars, pushed, popped>>
    /\ UNCHANGED subVars
    /\ UNCHANGED <<regVars, spawnVars>>

\* the consumer process dies while it holds a task
Crash(c) ==
    /\ cpc[c] \in {"update", "work", "notify", "complete"}
    /\ cpc' = [cpc EXCEPT ![c] = "crashed"]
    /\ UNCHANGED <<storeVars, now, prodVars, ctask, cargs, histVars>>
    /\ UNCHANGED subVars
    /\ UNCHANGED <<regVars, spawnVars>>

\* ------------------------------------------------- sequential API client
\* One client makes whole API calls one after another, as the tests do.
Published == 1..(nextId - 1)

\* the domain a published task was pushed to
DestOf(id) == CHOOSE d \in Domains : \E i \in 1..Len(pushed[d]) : pushed[d][i] = id

\* publish_task(domain, ...), lines 133-157
SeqPublishTask(d) ==
    /\ nextId <= MaxTasks
    /\ pending' = [pending EXCEPT ![d] = LPush(@, TaskMessage(nextId, d))]
    /\ results' = InitResult(results, nextId)
    /\ pushed' = [pushed EXCEPT ![d] = Append(@, nextId)]
    /\ nextId' = nextId + 1
    /\ UNCHANGED <<active, now, prodVars, consVars, popped, completed>>
    /\ UNCHANGED subVars
    /\ UNCHANGED <<regVars, spawnVars>>

\* get_next_task(domain), lines 170-185; None from an empty queue
SeqGetNextTask(d) ==
    /\ IF pending[d] # <<>>
       THEN LET task == RPopElem(pending[d])
            IN  /\ pending' = [pending EXCEPT ![d] = RPopRest(@)]
                /\ active' = [active EXCEPT ![d] = LPush(@, task)]
                /\ results' = UpdateResult(results, task.task_id, "in_progress", now)
                /\ popped' = [popped EXCEPT ![d] = Append(@, task.task_id)]
       ELSE UNCHANGED <<pending, active, results, popped>>
    /\ UNCHANGED <<nextId, now, prodVars, consVars, pushed, completed>>
    /\ UNCHANGED subVars
    /\ UNCHANGED <<regVars, spawnVars>>

\* a variant of SeqCompleteTask that pops the oldest entry of the active
\* list instead of removing the task by value
SeqCompleteTaskPop(d, id) ==
    /\ id \in Published
    /\ active' = [active EXCEPT ![d] = RPopRest(@)]
    /\ completed' = completed \cup {id}
    /\ UNCHANGED <<pending, results, nextId, now, prodVars, consVars, pushed, popped>>
    /\ UNCHANGED subVars
    /\ UNCHANGED <<regVars, spawnVars>>

\* complete_task(domain, task), lines 187-190
SeqCompleteTask(d, id) ==
    /\ id \in Published
    /\ active' = [active EXCEPT ![d] = LRem1(@, TaskMessage(id, DestOf(id)))]
    /\ completed' = completed \cup {id}
    /\ UNCHANGED <<pending, results, nextId, now, prodVars, consVars, pushed, popped>>
    /\ UNCHANGED subVars
    /\ UNCHANGED <<regVars, spawnVars>>

\* publish_result(task_id, output, status, error), lines 225-236
SeqPublishResult(id, args) ==
    /\ id \in Published
    /\ results' = StoreResult(results, id, args.output, args.status, args.error, now)
    /\ UNCHANGED <<pending, active, nextId, now, prodVars, consVars, histVars>>
    /\ UNCHANGED subVars
    /\ UNCHANGED <<regVars, spawnVars>>

\* publish_result(task_id, output, status, error), lines 225-236, for any
\* task_id the caller passes: the id is not looked up anywhere
PublishResultAnyId(id, args) ==
    /\ results' = StoreResult(results, id, args.output, args.status, args.error, now)
    /\ UNCHANGED <<pending, active, nextId, now, prodVars, consVars, histVars>>
    /\ UNCHANGED subVars
    /\ UNCHANGED <<regVars, spawnVars>>

\* ======================================================= registry actions
\* register (82-135): the pipeline is one transaction
Register(a, role, dtype) ==
    /\ reg' = RegisterStore(reg, a, role, dtype, now)
    /\ rret' = NoReturn
    /\ UNCHANGED <<dpc, darg, dinfo, msgVars>>
    /\ UNCHANGED <<sweep, rcalls, spawnVars>>


\* two clients call register for the same agent_id at the same time: each
\* call is one pipeline (lines 109-133), and the two run in either order
RegisterCallsStart(a, x1, x2) ==
    /\ rcalls.pc = "idle"
    /\ rcalls' = [pc |-> "running", agent |-> a, base |-> reg,
                  args |-> <<x1, x2>>, pending |-> {1, 2}]
    /\ UNCHANGED <<reg, dpc, darg, dinfo, rret, sweep, msgVars, spawnVars>>

RegisterCall(i) ==
    /\ rcalls.pc = "running"
    /\ i \in rcalls.pending
    /\ reg' = RegisterStore(reg, rcalls.agent, rcalls.args[i][1],
                            rcalls.args[i][2], now)
    /\ rret' = NoReturn
    /\ rcalls' = [rcalls EXCEPT !.pending = @ \ {i},
                                !.pc = IF rcalls.pending = {i} THEN "done"
                                       ELSE "running"]
    /\ UNCHANGED <<dpc, darg, dinfo, sweep, msgVars, spawnVars>>

RegisterCallsEnd ==
    /\ rcalls.pc = "done"
    /\ rcalls' = NoCalls
    /\ UNCHANGED <<reg, dpc, darg, dinfo, rret, sweep, msgVars, spawnVars>>

\* deregister, lines 147-149: get_agent; an unknown id returns False, a
\* record that is not an AgentInfo raises
DeregisterGet(a) ==
    /\ dpc = "idle"
    /\ LET inf == GetAgent(reg, a)
       IN  IF inf.kind = "agent"
           THEN /\ dpc' = "pipe"
                /\ darg' = a
                /\ dinfo' = inf
                /\ rret' = NoReturn
           ELSE /\ rret' = Returned("deregister", a,
                                    IF inf.kind = "none" THEN "False" ELSE "error")
                /\ UNCHANGED <<dpc, darg, dinfo>>
    /\ UNCHANGED <<reg, msgVars>>
    /\ UNCHANGED <<sweep, rcalls, spawnVars>>

\* deregister, lines 151-172: the pipeline, return True
DeregisterPipe ==
    /\ dpc = "pipe"
    /\ reg' = DeregisterStore(reg, darg, dinfo)
    /\ rret' = Returned("deregister", darg, "True")
    /\ dpc' = "idle"
    /\ darg' = None
    /\ dinfo' = NoAgent
    /\ UNCHANGED msgVars
    /\ UNCHANGED <<sweep, rcalls, spawnVars>>

\* heartbeat (273-290)
Heartbeat(a) ==
    /\ reg' = HeartbeatStore(reg, a, now)
    /\ rret' = NoReturn
    /\ UNCHANGED <<dpc, darg, dinfo, msgVars>>
    /\ UNCHANGED <<sweep, rcalls, spawnVars>>

\* a variant of Expire in which the record of the agent expires with the
\* lease
ExpireRecord(a) ==
    /\ IsHealthy(reg, a)
    /\ reg' = [reg EXCEPT !.heartbeat[a] = None, !.info[a] = EmptyHash]
    /\ rret' = NoReturn
    /\ UNCHANGED <<dpc, darg, dinfo, msgVars>>
    /\ UNCHANGED <<sweep, rcalls, spawnVars>>

\* the TTL of agents:heartbeat:{id} (line 49) has run out since the last
\* setex: the store drops the key
Expire(a) ==
    /\ IsHealthy(reg, a)
    /\ reg' = [reg EXCEPT !.heartbeat[a] = None]
    /\ rret' = NoReturn
    /\ UNCHANGED <<dpc, darg, dinfo, msgVars>>
    /\ UNCHANGED <<sweep, rcalls, spawnVars>>

\* update_status, set_busy, set_active (337-356)
UpdateStatus(a, st) ==
    /\ reg' = UpdateStatusStore(reg, a, st)
    /\ rret' = Returned("update_status", a,
                        IF HSetAdded(reg.info[a], [f \in {"status"} |-> st]) >= 0
                        THEN "True" ELSE "False")
    /\ UNCHANGED <<dpc, darg, dinfo, msgVars>>
    /\ UNCHANGED <<sweep, rcalls, spawnVars>>

\* find_available_domain (248-269) as one call of a sequential client
FindAvailable(t) ==
    /\ \E d \in FindAvailableDomain(reg, t) :
          rret' = [op |-> "find_available_domain", agent |-> d.agent_id,
                   val |-> d.kind, removed |-> {}]
    /\ UNCHANGED <<reg, dpc, darg, dinfo, sweep, msgVars, rcalls,
                 spawnVars>>

\* deregister as one call of a sequential client
SeqDeregister(a) ==
    /\ LET d == Deregister(reg, a)
       IN  /\ reg' = d.reg
           /\ rret' = Returned("deregister", a, d.val)
    /\ UNCHANGED <<dpc, darg, dinfo, msgVars>>
    /\ UNCHANGED <<sweep, rcalls, spawnVars>>

\* cleanup_dead_agents (320-333) as one call of a sequential client
SeqCleanup ==
    /\ \E todo \in Orders(GetUnhealthyAgents(reg)) :
          LET c == CleanupLoop(reg, todo, {})
          IN  /\ reg' = c.reg
              /\ rret' = [op |-> "cleanup_dead_agents", agent |-> None,
                          val |-> c.val, removed |-> c.removed]
    /\ UNCHANGED <<dpc, darg, dinfo, msgVars>>
    /\ UNCHANGED <<sweep, rcalls, spawnVars>>

\* ------------------- cleanup_dead_agents beside other clients (304-333)
\* line 311: all_agents = smembers agents:all
SweepStart ==
    /\ sweep.pc = "idle"
    /\ sweep' = [NoSweep EXCEPT !.pc = IF reg.all = {} THEN "sweep" ELSE "scan",
                                !.todo = reg.all]
    /\ rret' = NoReturn
    /\ UNCHANGED <<reg, dpc, darg, dinfo, msgVars, rcalls,
                 spawnVars>>

\* lines 314-316: is_healthy of one id of all_agents (exists of its lease);
\* an id without a lease goes on the unhealthy list
SweepTest(a) ==
    /\ sweep.pc = "scan"
    /\ a \in sweep.todo
    /\ sweep' = [sweep EXCEPT
                   !.todo = @ \ {a},
                   !.dead = IF IsHealthy(reg, a) THEN @ ELSE @ \cup {a},
                   !.pc = IF sweep.todo = {a} THEN "sweep" ELSE "scan"]
    /\ UNCHANGED <<reg, dpc, darg, dinfo, rret, msgVars, rcalls,
                 spawnVars>>

\* lines 329-330 and 147-149: deregister of the next unhealthy id starts with
\* get_agent; no record: deregister returns False; a record that is not an
\* AgentInfo: the ValidationError ends cleanup_dead_agents
SweepGet(a) ==
    /\ sweep.pc = "sweep"
    /\ a \in sweep.dead
    /\ LET inf == GetAgent(reg, a)
       IN  CASE inf.kind = "agent" ->
                  /\ sweep' = [sweep EXCEPT !.pc = "pipe", !.arg = a, !.info = inf]
                  /\ UNCHANGED rret
             [] inf.kind = "none" ->
                  /\ sweep' = [sweep EXCEPT !.dead = @ \ {a}]
                  /\ UNCHANGED rret
             [] OTHER ->
                  /\ sweep' = NoSweep
                  /\ rret' = [op |-> "cleanup_dead_agents", agent |-> None,
                              val |-> "error", removed |-> sweep.removed]
    /\ UNCHANGED <<reg, dpc, darg, dinfo, msgVars, rcalls,
                 spawnVars>>

\* lines 151-172 and 330-331: the pipeline of that deregister, which returns
\* True, and removed.append(agent_id)
SweepPipe ==
    /\ sweep.pc = "pipe"
    /\ reg' = DeregisterStore(reg, sweep.arg, sweep.info)
    /\ sweep' = [sweep EXCEPT !.pc = "sweep", !.dead = @ \ {sweep.arg},
                              !.removed = @ \cup {sweep.arg},
                              !.arg = None, !.info = NoAgent]
    /\ UNCHANGED <<dpc, darg, dinfo, rret, msgVars, rcalls,
                 spawnVars>>

\* line 333: return removed
SweepReturn ==
    /\ sweep.pc = "sweep"
    /\ sweep.dead = {}
    /\ rret' = [op |-> "cleanup_dead_agents", agent |-> None, val |-> "list",
                removed |-> sweep.removed]
    /\ sweep' = NoSweep
    /\ UNCHANGED <<reg, dpc, darg, dinfo, msgVars, rcalls,
                 spawnVars>>

\* ================================================= domain_runner.py (49-73)
\* lines 28-29: the domain a runner serves and its agent id (DOMAIN_TYPE,
\* AGENT_ID)
RunnerDomain == [c \in Consumers |-> IF c = "c1" THEN "backend" ELSE "frontend"]
RunnerAgent == [c \in Consumers |-> IF c = "c1" THEN "a1" ELSE "a2"]

\* a variant of GetNextEmpty that gives up while a task waits
GetNextEmptyEarly(c, d) ==
    /\ cpc[c] = "idle"
    /\ pending[d] # <<>>
    /\ cpc' = [cpc EXCEPT ![c] = "beat"]
    /\ UNCHANGED <<storeVars, now, prodVars, ctask, cargs, histVars, subVars,
                   regVars, spawnVars>>

\* messaging.py lines 173-185 on an empty pending list: rpoplpush (or
\* brpoplpush at its timeout) returns nothing and get_next_task returns None;
\* the runner takes the else branch of line 61
GetNextEmpty(c, d) ==
    /\ cpc[c] = "idle"
    /\ pending[d] = <<>>
    /\ cpc' = [cpc EXCEPT ![c] = "beat"]
    /\ UNCHANGED <<storeVars, now, prodVars, ctask, cargs, histVars, subVars,
                   regVars, spawnVars>>

\* domain_runner.py line 64: self.registry.heartbeat(self.agent_id)
RunnerHeartbeat(c) ==
    /\ cpc[c] = "beat"
    /\ reg' = HeartbeatStore(reg, RunnerAgent[c], now)
    /\ rret' = NoReturn
    /\ cpc' = [cpc EXCEPT ![c] = "idle"]
    /\ UNCHANGED <<storeVars, now, prodVars, ctask, cargs, histVars, subVars,
                   dpc, darg, dinfo>>
    /\ UNCHANGED <<sweep, rcalls, spawnVars>>

\* domain_runner.py line 93: _run_claude (165-208) runs the task to its end;
\* no registry call is made meanwhile.  The clock counts in units of the
\* lease TTL (registry.py line 49): this run takes one unit or more
RunClaude(c) ==
    /\ cpc[c] = "work"
    /\ now < MaxTime
    /\ now' = now + 1
    /\ UNCHANGED <<storeVars, prodVars, consVars, histVars>>
    /\ UNCHANGED subVars
    /\ UNCHANGED <<regVars, spawnVars>>

\* the clock value of the last setex of agents:heartbeat:{id}
LeaseTime(R, a) == CHOOSE t \in 0..MaxTime : Isoformat(t) = R.heartbeat[a]

\* registry.py lines 127-131 and 283-285: the lease set by setex with
\* HEARTBEAT_TTL is dropped by the store when a TTL has passed since then
ExpireDue(a) ==
    /\ IsHealthy(reg, a)
    /\ LeaseTime(reg, a) < now
    /\ Expire(a)

\* -------------------------------- process_task with failing store calls
\* domain_runner.py line 84: the add_log in front of the try raises (the
\* rpush of messaging.py 348); the exception leaves process_task past the
\* handlers of lines 115-128 and is caught in run (lines 66-71), which sleeps
\* and goes round the loop again
ProcessLogRaises(c) ==
    /\ cpc[c] = "work"
    /\ ctask' = [ctask EXCEPT ![c] = NoTask]
    /\ cpc' = [cpc EXCEPT ![c] = "idle"]
    /\ UNCHANGED <<storeVars, now, prodVars, cargs, histVars>>
    /\ UNCHANGED subVars
    /\ UNCHANGED <<regVars, spawnVars>>

\* lines 96-113: the publish_result of the try raises at its hset
\* (messaging.py 233) and nothing is written; line 115 catches it
ProcessResultRaises(c) ==
    /\ cpc[c] = "work"
    /\ cpc' = [cpc EXCEPT ![c] = "except"]
    /\ UNCHANGED <<storeVars, now, prodVars, ctask, cargs, histVars>>
    /\ UNCHANGED subVars
    /\ UNCHANGED <<regVars, spawnVars>>

\* lines 96-113: the publish_result of the try raises at its publish
\* (messaging.py 236), after the hset; line 115 catches it
ProcessNotifyRaises(c) ==
    /\ cpc[c] = "notify"
    /\ cpc' = [cpc EXCEPT ![c] = "except"]
    /\ UNCHANGED <<storeVars, now, prodVars, ctask, cargs, histVars>>
    /\ UNCHANGED subVars
    /\ UNCHANGED <<regVars, spawnVars>>

\* lines 115-123: publish_result(task_id, output={}, status="failed",
\* error=str(e)), its hset and its publish
ProcessExcept(c) ==
    /\ cpc[c] = "except"
    /\ results' = StoreResult(results, ctask[c].task_id, "dict{}", "failed",
                              "boom", now)
    /\ cargs' = [cargs EXCEPT ![c] = ResultArgs("dict{}", "failed", "boom")]
    /\ pinbox' = [p \in Producers |->
                     pinbox[p] \/ Subscribed(p, ctask[c].task_id)]
    /\ cpc' = [cpc EXCEPT ![c] = "complete"]
    /\ UNCHANGED <<pending, active, nextId, now, prodVars, ctask, histVars>>
    /\ UNCHANGED <<regVars, spawnVars>>

\* lines 115-123: the publish_result of the handler raises too; the finally
\* of line 124 runs before the exception leaves process_task
ProcessExceptRaises(c) ==
    /\ cpc[c] = "except"
    /\ cpc' = [cpc EXCEPT ![c] = "complete"]
    /\ UNCHANGED <<storeVars, now, prodVars, ctask, cargs, histVars>>
    /\ UNCHANGED subVars
    /\ UNCHANGED <<regVars, spawnVars>>

\* lines 124-126: the complete_task of the finally raises (the lrem of
\* messaging.py 190); the exception is caught in run (lines 66-71)
ProcessCompleteRaises(c) ==
    /\ cpc[c] = "complete"
    /\ ctask' = [ctask EXCEPT ![c] = NoTask]
    /\ cargs' = [cargs EXCEPT ![c] = NoArgs]
    /\ cpc' = [cpc EXCEPT ![c] = "idle"]
    /\ UNCHANGED <<storeVars, now, prodVars, histVars>>
    /\ UNCHANGED subVars
    /\ UNCHANGED <<regVars, spawnVars>>

\* ======================================================== spawner actions
\* ------------------------------------------------------ container runtime
\* the runtime starts a created container
RuntimeStart(c) ==
    /\ dock[c].status = "created"
    /\ dock' = [dock EXCEPT ![c].status = "running"]
    /\ UNCHANGED <<spn, msgVars, regVars>>

\* the process of a running container exits
RuntimeExit(c) ==
    /\ dock[c].status = "running"
    /\ dock' = [dock EXCEPT ![c].status = "exited"]
    /\ UNCHANGED <<spn, msgVars, regVars>>

\* the runtime marks a running container dead
RuntimeDie(c) ==
    /\ dock[c].status = "running"
    /\ dock' = [dock EXCEPT ![c].status = "dead"]
    /\ UNCHANGED <<spn, msgVars, regVars>>

\* line 168, restart_policy unless-stopped: the runtime starts an exited
\* container again unless a stop request stopped it
RuntimeRestart(c) ==
    /\ dock[c].status = "exited"
    /\ ~dock[c].manual
    /\ dock' = [dock EXCEPT ![c].status = "running"]
    /\ UNCHANGED <<spn, msgVars, regVars>>

\* the health probe of a container reports h
RuntimeHealth(c, h) ==
    /\ ContainerExists(dock, c)
    /\ dock[c].health # h
    /\ dock' = [dock EXCEPT ![c].health = h]
    /\ UNCHANGED <<spn, msgVars, regVars>>

\* ------------------------------------------------- spawn_domain (105-177)
\* lines 134-172: containers.run with a fresh domain id creates the
\* container; with wait_for_start the call goes on to _wait_for_container
\* (line 214: the deadline), without it the call returns the domain id
SpawnRun(c, wait, timeout) ==
    /\ spn.pc = "idle"
    /\ dock[c].status = "absent"
    /\ dock' = [dock EXCEPT ![c].status = "created"]
    /\ spn' = IF wait
              THEN [NoCall EXCEPT !.op = "spawn_domain", !.id = c,
                                  !.pc = "wait", !.deadline = now + timeout]
              ELSE [NoCall EXCEPT !.op = "spawn_domain", !.id = c,
                                  !.ret = Value(c)]
    /\ UNCHANGED <<msgVars, regVars>>

\* lines 175-176: containers.run raises an APIError
SpawnRunFails(c) ==
    /\ spn.pc = "idle"
    /\ dock[c].status = "absent"
    /\ spn' = [NoCall EXCEPT !.op = "spawn_domain", !.id = c,
                             !.ret = DockerException("Failed to spawn domain", None)]
    /\ UNCHANGED <<dock, msgVars, regVars>>

\* a variant of SpawnPoll that takes any container that exists as started
SpawnPollExists ==
    /\ spn.pc = "wait"
    /\ spn' = IF now < spn.deadline
              THEN IF ContainerExists(dock, spn.id)
                   THEN [spn EXCEPT !.pc = "idle", !.polled = TRUE,
                                    !.ret = Value(spn.id)]
                   ELSE [spn EXCEPT !.pc = "idle", !.polled = TRUE,
                                    !.ret = DockerException("Container not found", None)]
              ELSE [spn EXCEPT !.pc = "idle",
                               !.ret = DockerException("Container did not start", None)]
    /\ UNCHANGED <<dock, msgVars, regVars>>

\* lines 216-231: one turn of the loop of _wait_for_container: before the
\* deadline, containers.get and the test of the status (running: return,
\* exited or dead: raise with the logs, no container: raise, otherwise
\* sleep and go round again); at the deadline, raise
SpawnPoll ==
    /\ spn.pc = "wait"
    /\ spn' = IF now < spn.deadline
              THEN CASE ~ContainerExists(dock, spn.id) ->
                          [spn EXCEPT !.pc = "idle", !.polled = TRUE,
                                      !.ret = DockerException("Container not found", None)]
                     [] dock[spn.id].status = "running" ->
                          [spn EXCEPT !.pc = "idle", !.polled = TRUE,
                                      !.ret = Value(spn.id)]
                     [] dock[spn.id].status \in {"exited", "dead"} ->
                          [spn EXCEPT !.pc = "idle", !.polled = TRUE,
                                      !.ret = DockerException("Container exited unexpectedly",
                                                              Logs(spn.id))]
                     [] OTHER -> [spn EXCEPT !.polled = TRUE]
              ELSE [spn EXCEPT !.pc = "idle",
                               !.ret = DockerException("Container did not start", None)]
    /\ UNCHANGED <<dock, msgVars, regVars>>

\* -------------------------------------------------- stop_domain (233-263)
\* a variant of StopFind that goes on to remove without the stop request
StopFindNoStop(c) ==
    /\ \/ spn.pc = "idle"
       \/ spn.pc = "loop" /\ c \in spn.todo
    /\ LET s == IF spn.pc = "idle"
                THEN [NoCall EXCEPT !.op = "stop_domain", !.id = c,
                                    !.calls = <<"list">>]
                ELSE [spn EXCEPT !.todo = @ \ {c}, !.id = c,
                                 !.calls = <<"list">>]
       IN  spn' = IF FindContainerByDomainId(dock, c) = None
                  THEN StopReturned(s, "False")
                  ELSE [s EXCEPT !.pc = "remove"]
    /\ UNCHANGED <<dock, msgVars, regVars>>

\* lines 244-246 and 257-263: stop_domain(c), called by a client or by a
\* cleanup for the next domain of its list: the container is looked up by
\* its domain-id label; none: return False
StopFind(c) ==
    /\ \/ spn.pc = "idle"
       \/ spn.pc = "loop" /\ c \in spn.todo
    /\ LET s == IF spn.pc = "idle"
                THEN [NoCall EXCEPT !.op = "stop_domain", !.id = c,
                                    !.calls = <<"list">>]
                ELSE [spn EXCEPT !.todo = @ \ {c}, !.id = c,
                                 !.calls = <<"list">>]
       IN  spn' = IF FindContainerByDomainId(dock, c) = None
                  THEN StopReturned(s, "False")
                  ELSE [s EXCEPT !.pc = "stop"]
    /\ UNCHANGED <<dock, msgVars, regVars>>

\* line 249: container.stop(timeout): a running container exits and is
\* marked as stopped by request, any other container stays as it is; a
\* container that is gone raises NotFound (lines 252-253: return False)
StopStop ==
    /\ spn.pc = "stop"
    /\ LET s == [spn EXCEPT !.calls = Append(@, "stop")]
       IN  IF ContainerExists(dock, spn.id)
           THEN /\ dock' = [dock EXCEPT ![spn.id] =
                               IF @.status = "running"
                               THEN [@ EXCEPT !.status = "exited", !.manual = TRUE]
                               ELSE @]
                /\ spn' = [s EXCEPT !.pc = "remove"]
           ELSE /\ spn' = StopReturned(s, "False")
                /\ UNCHANGED dock
    /\ UNCHANGED <<msgVars, regVars>>

\* lines 250-255: container.remove(): a container that is gone raises
\* NotFound (return False), a running container is refused with an APIError
\* (raise DockerException), any other container is removed (return True)
StopRemove ==
    /\ spn.pc = "remove"
    /\ LET s == [spn EXCEPT !.calls = Append(@, "remove")]
       IN  CASE ~ContainerExists(dock, spn.id) ->
                  /\ spn' = StopReturned(s, "False")
                  /\ UNCHANGED dock
             [] dock[spn.id].status = "running" ->
                  /\ spn' = StopRaised(s, DockerException("Failed to stop domain", None))
                  /\ UNCHANGED dock
             [] OTHER ->
                  /\ dock' = [dock EXCEPT ![spn.id].status = "removed"]
                  /\ spn' = StopReturned(s, "True")
    /\ UNCHANGED <<msgVars, regVars>>

\* -------------------------------------------- is_domain_healthy (340-363)
IsDomainHealthyCall(c) ==
    /\ spn.pc = "idle"
    /\ spn' = [NoCall EXCEPT !.op = "is_domain_healthy", !.id = c,
                             !.ret = Value(IF IsDomainHealthy(dock, c)
                                           THEN "True" ELSE "False")]
    /\ UNCHANGED <<dock, msgVars, regVars>>

\* ----------------------------- cleanup_stopped, cleanup_all (385-417)
\* lines 394-396 and 411-413: list_domains(), and for cleanup_stopped the
\* test of the listed status of each domain: the domains the loop calls
\* stop_domain for
CleanList(op) ==
    /\ spn.pc = "idle"
    /\ spn' = [NoCall EXCEPT
                 !.op = op,
                 !.pc = "loop",
                 !.todo = {d.domain_id :
                             d \in {x \in ListDomains(dock) :
                                      \/ op = "cleanup_all"
                                      \/ x.status \in {"exited", "dead"}}}]
    /\ UNCHANGED <<dock, msgVars, regVars>>

\* lines 399 and 417: the loop is over, return removed
CleanReturn ==
    /\ spn.pc = "loop"
    /\ spn.todo = {}
    /\ spn' = [spn EXCEPT !.pc = "idle", !.ret = Value("removed")]
    /\ UNCHANGED <<dock, msgVars, regVars>>

\* ------------------------------------------------------- specifications
PublishStep(p) ==
    \/ \E d \in Domains : PublishLPush(p, d)
    \/ PublishInit(p)
    \/ PublishNotify(p)

WaitStep(p) ==
    \/ \E timeout \in Timeouts : WaitStart(p, timeout)
    \/ WaitPoll(p)

ConsumerStep(c) ==
    \/ \E d \in Domains : GetNextPop(c, d)
    \/ GetNextUpdate(c)
    \/ \E args \in RunnerArgs : ResultHSet(c, args)
    \/ ResultNotify(c)
    \/ CompleteTask(c)

\* producers and consumers run concurrently, one store call per step
Next ==
    \/ \E p \in Producers : PublishStep(p)
    \/ \E c \in Consumers : ConsumerStep(c)
    \/ \E c \in Consumers : Crash(c)

Spec == Init /\ [][Next]_vars

\* a sequential client: any sequence of whole API calls
NextSeq ==
    \/ \E d \in Domains : SeqPublishTask(d)
    \/ \E d \in Domains : SeqGetNextTask(d)
    \/ \E d \in Domains : \E id \in TaskIds : SeqCompleteTask(d, id)
    \/ \E id \in TaskIds : \E args \in RunnerArgs : SeqPublishResult(id, args)

SpecSeq == Init /\ [][NextSeq]_vars

\* the store used by one sequential client that passes any status to
\* publish_result
NextApi ==
    \/ \E d \in Domains : SeqPublishTask(d)
    \/ \E d \in Domains : SeqGetNextTask(d)
    \/ \E id \in TaskIds : \E args \in ApiArgs : SeqPublishResult(id, args)

SpecApi == Init /\ [][NextApi]_vars

\* the store used by one sequential client that passes any task_id to
\* publish_result
NextResults ==
    \/ \E d \in Domains : SeqPublishTask(d)
    \/ \E d \in Domains : SeqGetNextTask(d)
    \/ \E id \in TaskIds : \E args \in RunnerArgs : PublishResultAnyId(id, args)

SpecResults == Init /\ [][NextResults]_vars

\* a producer that publishes and then polls, and a runner that keeps running
NextLive ==
    \/ \E p \in LiveProducers : PublishStep(p)
    \/ \E p \in LiveProducers : WaitStep(p)
    \/ \E c \in LiveConsumers : ConsumerStep(c)

Fairness ==
    /\ \A p \in LiveProducers : WF_vars(PublishStep(p) \/ WaitStep(p))
    /\ \A c \in LiveConsumers : WF_vars(ConsumerStep(c))

SpecLive == Init /\ [][NextLive]_vars /\ Fairness

\* the same processes with the clock running: a wait can reach its deadline;
\* the producer publishes MaxWaitTasks tasks
NextWait ==
    \/ \E p \in LiveProducers : \E d \in Domains :
          nextId <= MaxWaitTasks /\ PublishLPush(p, d)
    \/ \E p \in LiveProducers : PublishInit(p) \/ PublishNotify(p)
    \/ \E p \in LiveProducers : WaitStep(p)
    \/ \E c \in LiveConsumers : ConsumerStep(c)
    \/ Tick
    \/ \E p \in LiveProducers : WaitTimeout(p)

SpecWait == Init /\ [][NextWait]_vars

\* one producer that publishes and calls get_result with a timeout, one
\* runner, and the clock
GetStep(p) ==
    \/ \E timeout \in Timeouts : GetSubscribe(p, timeout)
    \/ GetMessage(p)
    \/ GetPoll(p)
    \/ GetDeadline(p)
    \/ GetRead(p)

NextGet ==
    \/ \E p \in LiveProducers : PublishStep(p)
    \/ \E p \in LiveProducers : GetStep(p)
    \/ \E c \in LiveConsumers : ConsumerStep(c)
    \/ Tick

SpecGet == Init /\ [][NextGet]_vars

\* a producer and a runner in its loop, serving its own domain
RunnerStep(c) ==
    \/ GetNextPop(c, RunnerDomain[c])
    \/ GetNextEmpty(c, RunnerDomain[c])
    \/ RunnerHeartbeat(c)
    \/ GetNextUpdate(c)
    \/ \E args \in RunnerArgs : ResultHSet(c, args)
    \/ ResultNotify(c)
    \/ CompleteTask(c)

NextRunner ==
    \/ \E p \in LiveProducers : PublishStep(p)
    \/ \E c \in LiveConsumers : RunnerStep(c)

SpecRunner == Init /\ [][NextRunner]_vars

\* a producer and a runner whose store calls may raise inside process_task;
\* each of the two keeps taking steps
ProcessStep(c) ==
    \/ RunnerStep(c)
    \/ ProcessLogRaises(c)
    \/ ProcessResultRaises(c)
    \/ ProcessNotifyRaises(c)
    \/ ProcessExcept(c)
    \/ ProcessExceptRaises(c)
    \/ ProcessCompleteRaises(c)

NextProcess ==
    \/ \E p \in LiveProducers : PublishStep(p)
    \/ \E c \in LiveConsumers : ProcessStep(c)

FairProcess ==
    /\ \A p \in LiveProducers : WF_vars(PublishStep(p))
    /\ \A c \in LiveConsumers : WF_vars(ProcessStep(c))

SpecProcess == Init /\ [][NextProcess]_vars /\ FairProcess

\* a runner in its loop with the clock running: its agent has been
\* registered for it, its lease expires when it is due, and a client runs
\* cleanup_dead_agents
NextBeat ==
    \/ \E p \in LiveProducers : PublishStep(p)
    \/ \E c \in LiveConsumers :
          /\ RunnerAgent[c] \notin reg.all
          /\ Register(RunnerAgent[c], "domain", RunnerDomain[c])
    \/ \E c \in LiveConsumers : RunnerStep(c)
    \/ \E c \in LiveConsumers : RunClaude(c)
    \/ \E c \in LiveConsumers : ExpireDue(RunnerAgent[c])
    \/ SeqCleanup

SpecBeat == Init /\ [][NextBeat]_vars

\* the registry used by concurrent clients: register and heartbeat are one
\* transaction each, deregister reads the record and then runs its pipeline
RegStep ==
    \/ \E a \in Agents : \E args \in RegisterArgs : Register(a, args[1], args[2])
    \/ \E a \in Agents : Heartbeat(a)
    \/ \E a \in Agents : Expire(a)

NextReg ==
    \/ RegStep
    \/ \E a \in Agents : DeregisterGet(a)
    \/ DeregisterPipe

SpecReg == Init /\ [][NextReg]_vars

\* the registry used by one sequential client
NextRegSeq ==
    \/ RegStep
    \/ \E a \in Agents : SeqDeregister(a)
    \/ SeqCleanup

SpecRegSeq == Init /\ [][NextRegSeq]_vars

\* cleanup_dead_agents run by one client beside the agents, which register
\* and send heartbeats, and beside the expiry of their leases

\* the registry with pairs of concurrent register calls; the calls of
\* RegStep run between the pairs
NextRegCalls ==
    \/ rcalls.pc = "idle" /\ RegStep
    \/ \E a \in Agents : \E x1, x2 \in RegisterArgs : RegisterCallsStart(a, x1, x2)
    \/ \E i \in {1, 2} : RegisterCall(i)
    \/ RegisterCallsEnd

SpecRegCalls == Init /\ [][NextRegCalls]_vars

SweepStep ==
    \/ SweepStart
    \/ \E a \in Agents : SweepTest(a)
    \/ \E a \in Agents : SweepGet(a)
    \/ SweepPipe
    \/ SweepReturn

NextSweep ==
    \/ RegStep
    \/ SweepStep

SpecSweep == Init /\ [][NextSweep]_vars

\* agents that register and heartbeat until the clock reaches MaxTime and
\* are dead from then on, leases that expire, and a client that keeps
\* running cleanup_dead_agents
NextDeath ==
    \/ now < MaxTime /\ \E a \in Agents : \E args \in RegisterArgs :
                           Register(a, args[1], args[2])
    \/ now < MaxTime /\ \E a \in Agents : Heartbeat(a)
    \/ Tick
    \/ \E a \in Agents : Expire(a)
    \/ SeqCleanup

FairDeath ==
    /\ WF_vars(Tick)
    /\ \A a \in Agents : WF_vars(Expire(a))
    /\ WF_vars(SeqCleanup)

SpecDeath == Init /\ [][NextDeath]_vars /\ FairDeath

\* the sequential client also calls set_busy and set_active
NextRegStatus ==
    \/ RegStep
    \/ \E a \in Agents : SeqDeregister(a)
    \/ \E a \in Agents : \E st \in Statuses : UpdateStatus(a, st)
    \/ \E t \in RegTypes : FindAvailable(t)

SpecRegStatus == Init /\ [][NextRegStatus]_vars

\* the registry of a client that registers agents and sets any status, and
\* leases that expire
NextStatus ==
    \/ \E a \in Agents : \E args \in RegisterArgs : Register(a, args[1], args[2])
    \/ \E a \in Agents : Expire(a)
    \/ \E a \in Agents : \E st \in AllStatuses : UpdateStatus(a, st)

SpecStatus == Init /\ [][NextStatus]_vars

\* spawn_domain beside the container runtime and the clock
RuntimeStep ==
    \/ \E c \in DomainIds : RuntimeStart(c)
    \/ \E c \in DomainIds : RuntimeExit(c)
    \/ \E c \in DomainIds : RuntimeDie(c)
    \/ \E c \in DomainIds : RuntimeRestart(c)

NextSpawn ==
    \/ RuntimeStep
    \/ Tick
    \/ \E c \in DomainIds : \E wait \in BOOLEAN : \E timeout \in SpawnTimeouts :
          SpawnRun(c, wait, timeout)
    \/ \E c \in DomainIds : SpawnRunFails(c)
    \/ SpawnPoll

SpecSpawn == Init /\ [][NextSpawn]_vars

\* the containers of spawn_domain calls that do not wait
Spawned == \E c \in DomainIds : SpawnRun(c, FALSE, 0)

\* stop_domain beside the container runtime
NextStop ==
    \/ RuntimeStep
    \/ Spawned
    \/ \E c \in DomainIds : spn.pc = "idle" /\ StopFind(c)
    \/ StopStop
    \/ StopRemove

SpecStop == Init /\ [][NextStop]_vars

\* is_domain_healthy beside the container runtime and its health probes
NextHealth ==
    \/ RuntimeStep
    \/ \E c \in DomainIds : \E h \in HealthValues : RuntimeHealth(c, h)
    \/ Spawned
    \/ \E c \in DomainIds : IsDomainHealthyCall(c)

SpecHealth == Init /\ [][NextHealth]_vars

\* the cleanups beside the container runtime
NextClean ==
    \/ RuntimeStep
    \/ Spawned
    \/ \E op \in {"cleanup_stopped", "cleanup_all"} : CleanList(op)
    \/ \E c \in DomainIds : spn.pc = "loop" /\ StopFind(c)
    \/ StopStop
    \/ StopRemove
    \/ CleanReturn

SpecClean == Init /\ [][NextClean]_vars

\* ------------------------------------------------------------ properties
\* positions of task id in the pending lists and in the active lists
PendingPos(id) ==
    UNION {{<<d, i>> : i \in {j \in 1..Len(pending[d]) : pending[d][j].task_id = id}}
           : d \in Domains}
ActivePos(id) ==
    UNION {{<<d, i>> : i \in {j \in 1..Len(active[d]) : active[d][j].task_id = id}}
           : d \in Domains}
\* task id is in one of the lists
TaskIn(lists, id) ==
    \E d \in Domains : \E j \in 1..Len(lists[d]) : lists[d][j].task_id = id
InPending(id) == TaskIn(pending, id)
InActive(id) == TaskIn(active, id)

IsPrefix(s, t) == Len(s) <= Len(t) /\ SubSeq(t, 1, Len(s)) = s

Exists(h) == DOMAIN h # {}
StatusOf(h) == Field(h, "status", "absent")
StatusRank(st) ==
    CASE st = "absent" -> 0
      [] st = "pending" -> 1
      [] st = "in_progress" -> 2
      [] OTHER -> 3

\* C1: for each domain, the tasks get_next_task hands out are, in order, the
\* first tasks pushed to that domain's queue (FIFO), under every interleaving
\* of publishes and dequeues on this and on the other domains.
C1_Fifo == \A d \in Domains : IsPrefix(popped[d], pushed[d])

\* two tasks of one domain were published and both dequeued
C1_Witness == \E d \in Domains : Len(popped[d]) >= 2

\* C2: every task occurs at most once in total across the pending and the
\* active lists: never in both, never twice in one.
C2_AtMostOnce ==
    \A id \in TaskIds : Cardinality(PendingPos(id)) + Cardinality(ActivePos(id)) <= 1

\* one task was moved to active while another one is still pending
C2_Witness ==
    \E d \in Domains : Len(active[d]) >= 1 /\ Len(pending[d]) >= 1

\* C3: a published task for which complete_task was not called is in pending
\* or active; a task a consumer holds, also a crashed consumer, is in
\* active; and no step moves a task from active back to pending.
C3_Kept ==
    /\ \A id \in Published : id \notin completed => InPending(id) \/ InActive(id)
    /\ \A c \in Consumers : cpc[c] # "idle" => InActive(ctask[c].task_id)
C3_NoRequeue ==
    \A id \in TaskIds : InActive(id) /\ ~InPending(id) => ~TaskIn(pending', id)
C3_NeverLost == [][C3_Kept' /\ C3_NoRequeue]_vars

\* a consumer crashed after get_next_task returned, its task is in active
C3_Witness ==
    \E c \in Consumers :
        /\ cpc[c] = "crashed"
        /\ InActive(ctask[c].task_id)
        /\ StatusOf(results[ctask[c].task_id]) = "in_progress"

\* C4: the stored status of a task only moves forward along
\* pending -> in_progress -> {completed, failed} and never changes once it is
\* completed or failed.
C4_Monotonic ==
    [][\A id \in TaskIds :
          /\ StatusRank(StatusOf(results'[id])) >= StatusRank(StatusOf(results[id]))
          /\ StatusOf(results[id]) \in TerminalStatuses
                => StatusOf(results'[id]) = StatusOf(results[id])]_vars

\* C5: a task is in a queue (pending or active) only while its result record
\* exists, and a result record exists only for a task that was queued.
C5_Atomic ==
    \A id \in TaskIds :
        /\ InPending(id) \/ InActive(id) => Exists(results[id])
        /\ Exists(results[id]) => id \in Published

\* C6: right after publish_result(task_id, output, status, error), get_result
\* returns that status, that output, that error (None when none was given)
\* and a completed_at, whatever the record held before.
C6_RoundTrip ==
    [][\A id \in TaskIds : \A args \in RunnerArgs :
          SeqPublishResult(id, args) =>
              LET r == GetResult(results'[id])
              IN  /\ r.kind = "result"
                  /\ r.status = args.status
                  /\ r.output = args.output
                  /\ r.error = args.error
                  /\ r.completed_at # None]_vars

\* C7: the lpush of publish_task makes the domain's queue one longer and
\* leaves the other queues as they are, and when publish_task returns a task
\* that no consumer has dequeued, its TaskResult exists with status pending.
C7_Publish ==
    [][\A p \in Producers :
          /\ ppc[p] = "idle" /\ ppc'[p] = "init" =>
                \A d \in Domains :
                    Len(pending'[d]) =
                        IF d = ptask'[p].destination
                        THEN Len(pending[d]) + 1 ELSE Len(pending[d])
          /\ ppc[p] = "notify" /\ ppc'[p] = "idle" /\ TaskIn(pending', pret'[p]) =>
                LET r == GetResult(results'[pret'[p]])
                IN  r.kind = "result" /\ r.task_id = pret'[p] /\ r.status = "pending"]_vars

\* publish_task returned a task that is still pending, with its record
C7_Witness ==
    \E p \in Producers :
        /\ ppc[p] = "idle" /\ pret[p] # NoId
        /\ InPending(pret[p])
        /\ StatusOf(results[pret[p]]) = "pending"

\* C8: the rpoplpush of get_next_task makes the domain's queue one shorter
\* and puts the task in active, and when get_next_task returns, the task's
\* result record has status in_progress and started_at set.
C8_Dequeue ==
    [][\A c \in Consumers :
          /\ cpc[c] = "idle" /\ cpc'[c] = "update" =>
                /\ \A d \in Domains :
                      Len(pending'[d]) =
                          IF d = ctask'[c].destination
                          THEN Len(pending[d]) - 1 ELSE Len(pending[d])
                /\ ~InActive(ctask'[c].task_id)
                /\ TaskIn(active', ctask'[c].task_id)
          /\ cpc[c] = "update" /\ cpc'[c] = "work" =>
                /\ StatusOf(results'[ctask[c].task_id]) = "in_progress"
                /\ "started_at" \in DOMAIN results'[ctask[c].task_id]]_vars

\* get_next_task returned a task: it is in active, in progress, stamped
C8_Witness ==
    \E c \in Consumers :
        /\ cpc[c] = "work"
        /\ InActive(ctask[c].task_id)
        /\ StatusOf(results[ctask[c].task_id]) = "in_progress"
        /\ "started_at" \in DOMAIN results[ctask[c].task_id]

\* C9 as stated: once a record is completed or failed, no API call changes
\* its output or its error.
C9_SetOnce ==
    [][\A id \in TaskIds :
          StatusOf(results[id]) \in TerminalStatuses =>
              /\ Field(results'[id], "output", None) = Field(results[id], "output", None)
              /\ Field(results'[id], "error", None) = Field(results[id], "error", None)]_vars

\* C9 amended: the output and error of a result record are changed by no
\* API call other than publish_result for that task_id.
C9_OnlyPublishResult ==
    [][\A id \in TaskIds :
          ~(\E args \in RunnerArgs : SeqPublishResult(id, args)) =>
              /\ Field(results'[id], "output", None) = Field(results[id], "output", None)
              /\ Field(results'[id], "error", None) = Field(results[id], "error", None)]_vars

\* a record that already had its output and error went through get_next_task
C9_Witness ==
    \E id \in TaskIds :
        /\ InActive(id) /\ StatusOf(results[id]) = "in_progress"
        /\ Field(results[id], "output", None) # None
        /\ Field(results[id], "error", None) # None

\* C10: a producer that polls for the task it published eventually gets a
\* TaskResult with status completed or failed for it, while the runner keeps
\* running.
C10_EventuallyTerminal ==
    \A p \in LiveProducers : \A id \in TaskIds :
        (ppc[p] = "wait" /\ pret[p] = id)
            ~> (pres[p].kind = "result" /\ pres[p].task_id = id
                /\ pres[p].status \in TerminalStatuses)
\* publish_result(id, ...) has returned: the runner that holds the task is
\* past line 236, or has already called complete_task for it
ResultPublished(id) ==
    \/ id \in completed
    \/ \E c \in Consumers : cpc[c] = "complete" /\ ctask[c].task_id = id

\* C11: get_result(task_id, timeout > 0) goes on waiting only while
\* publish_result for the task has not returned, and once publish_result has
\* returned the call returns the TaskResult with its terminal status, even
\* when the message on the channel was published before the subscription
C11_GetResult ==
    [][\A p \in LiveProducers :
         /\ ppc[p] = "gpoll" /\ ppc'[p] = "gmsg" => ~ResultPublished(pret[p])
         /\ ppc[p] = "gread" /\ ppc'[p] = "idle" /\ ResultPublished(pret[p])
              => /\ pres'[p].kind = "result"
                 /\ pres'[p].task_id = pret[p]
                 /\ pres'[p].status \in TerminalStatuses]_vars

\* C12: wait_for_result returns a TaskResult only with status completed or
\* failed (the record as stored), returns None only once the deadline has
\* passed, and none of its steps changes the queues or a result record
C12_WaitFrame ==
    [][\A p \in LiveProducers :
         /\ ppc[p] # ppc'[p] /\ "wait" \in {ppc[p], ppc'[p]}
              => storeVars' = storeVars
         /\ WaitPoll(p) => storeVars' = storeVars
         /\ ppc[p] = "wait" /\ ppc'[p] = "idle"
              => \/ /\ pres'[p].kind = "result"
                    /\ pres'[p].status \in TerminalStatuses
                    /\ pres'[p] = GetResult(results[pret[p]])
                 \/ /\ pres'[p] = NoResult
                    /\ now >= pdeadline[p]]_vars

\* a wait has timed out and returned None, the record is still pending
C12_Witness ==
    \E p \in LiveProducers :
        /\ ppc[p] = "idle" /\ pret[p] # NoId
        /\ pdeadline[p] > 0 /\ now >= pdeadline[p]
        /\ pres[p] = NoResult
        /\ StatusOf(results[pret[p]]) = "pending"

\* ---------------------------------------------------- registry properties
\* the ids found in a membership set of a role, or as the value of agents:main
RoleMembers(R) ==
    R.domains \cup R.workers \cup UNION {R.byType[t] : t \in RegTypes}
        \cup (IF R.main = None THEN {} ELSE {R.main})
Members(R) == R.all \cup RoleMembers(R)

\* C14: every agent id that is in agents:all, agents:domains,
\* agents:domains:{type} or agents:workers, or is the value of agents:main,
\* has an info record
C14_MembersHaveInfo == \A a \in Members(reg) : DOMAIN reg.info[a] # {}

\* C15: when register(agent_id, role, domain_type) has returned, get_agent
\* returns a record with that agent_id, role and domain_type (None when none
\* was given) and status active, whatever the registry held before
C15_RegisterThenGet ==
    [][\A a \in Agents : \A args \in RegisterArgs :
         Register(a, args[1], args[2])
           => LET g == GetAgent(reg', a)
              IN  /\ g.kind = "agent"
                  /\ g.agent_id = a
                  /\ g.role = args[1]
                  /\ g.domain_type = args[2]
                  /\ g.status = "active"]_vars

\* the role sets that hold the id a, agents:main included
RoleSetsOf(R, a) ==
    [domains |-> a \in R.domains, workers |-> a \in R.workers,
     byType |-> {t \in RegTypes : a \in R.byType[t]}, main |-> R.main = a]

\* C16: register is an idempotent upsert: a second register with the same
\* arguments changes nothing, and after any register the role, domain_type
\* and status of the record and the role sets that hold the id are those
\* that the call produces on an empty registry
C16_Upsert ==
    [][\A a \in Agents : \A args \in RegisterArgs :
         Register(a, args[1], args[2])
           => LET alone == RegisterStore(EmptyRegistry, a, args[1], args[2], now)
              IN  /\ RegisterStore(reg', a, args[1], args[2], now) = reg'
                  /\ \A f \in {"agent_id", "role", "domain_type", "status"} :
                        Field(reg'.info[a], f, None) = Field(alone.info[a], f, None)
                  /\ a \in reg'.all
                  /\ RoleSetsOf(reg', a) = RoleSetsOf(alone, a)]_vars

\* C17: deregister of a registered agent returns True, takes the id out of
\* agents:all and of every role set, and deletes its info record and its
\* lease, so that get_agent returns None; deregister of an id with no info
\* record returns False and changes nothing in the registry
C17_Deregister ==
    [][\A a \in Agents :
         SeqDeregister(a)
           => LET inf == GetAgent(reg, a)
              IN  /\ inf.kind = "agent"
                       => /\ rret' = Returned("deregister", a, "True")
                          /\ a \notin Members(reg')
                          /\ GetAgent(reg', a) = NoAgent
                          /\ ~IsHealthy(reg', a)
                  /\ inf.kind = "none"
                       => /\ rret' = Returned("deregister", a, "False")
                          /\ reg' = reg]_vars

\* C18: heartbeat for an agent that deregister has just removed does not
\* bring it back: afterwards the agent has no info record, is in no
\* membership set and is not healthy
C18_NoResurrection ==
    [][\A a \in Agents :
         rret = Returned("deregister", a, "True") /\ Heartbeat(a)
           => /\ GetAgent(reg', a) = NoAgent
              /\ a \notin Members(reg')
              /\ ~IsHealthy(reg', a)]_vars

\* C19: is_healthy is true exactly when the key agents:heartbeat:{id} exists:
\* it is true right after register and after heartbeat, it goes from true to
\* false only when the lease expires or deregister (alone or in
\* cleanup_dead_agents) deletes it, and from false to true only by a
\* heartbeat or a register of that id
C19_HealthyIffLease ==
    [][\A a \in Agents :
         LET registers == \E args \in RegisterArgs : Register(a, args[1], args[2])
         IN  /\ IsHealthy(reg', a) <=> reg'.heartbeat[a] # None
             /\ ~IsHealthy(reg', a) => ~registers /\ ~Heartbeat(a)
             /\ IsHealthy(reg, a) /\ ~IsHealthy(reg', a)
                  => Expire(a) \/ SeqDeregister(a) \/ SeqCleanup
             /\ ~IsHealthy(reg, a) /\ IsHealthy(reg', a)
                  => registers \/ Heartbeat(a)]_vars

\* a registered agent that has sent a heartbeat and whose lease has expired
C19_Witness ==
    \E a \in Agents :
        /\ a \in reg.all
        /\ "last_heartbeat" \in DOMAIN reg.info[a]
        /\ ~IsHealthy(reg, a)

\* C20: cleanup_dead_agents run alone deregisters every id of agents:all
\* that has no lease (afterwards the id is in no membership set and has no
\* info record), returns exactly those ids, and leaves every agent with a
\* live lease as it was: membership, role sets, info record and lease
C20_Cleanup ==
    [][SeqCleanup
         => LET dead == {a \in reg.all : ~IsHealthy(reg, a)}
            IN  /\ rret'.op = "cleanup_dead_agents"
                /\ rret'.val = "list"
                /\ rret'.removed = dead
                /\ \A a \in dead : /\ a \notin Members(reg')
                                   /\ GetAgent(reg', a) = NoAgent
                /\ \A a \in Agents :
                     IsHealthy(reg, a)
                       => /\ a \in reg'.all <=> a \in reg.all
                          /\ RoleSetsOf(reg', a) = RoleSetsOf(reg, a)
                          /\ reg'.info[a] = reg.info[a]
                          /\ reg'.heartbeat[a] = reg.heartbeat[a]]_vars

\* C13: get_next_task on an empty pending list of the domain returns None
\* (the runner goes on to its heartbeat, nothing is raised) and leaves the
\* pending lists, the active lists and every result record as they were; on
\* a list that is not empty it returns a task
C13_EmptyDequeue ==
    [][\A c \in LiveConsumers :
         cpc[c] = "idle" /\ cpc'[c] # "idle"
           => IF pending[RunnerDomain[c]] = <<>>
              THEN /\ cpc'[c] = "beat"
                   /\ pending' = pending
                   /\ active' = active
                   /\ results' = results
              ELSE cpc'[c] = "update"]_vars

\* a runner that has completed a task finds its queue empty
C13_Witness ==
    \E c \in LiveConsumers :
        /\ cpc[c] = "beat"
        /\ pending[RunnerDomain[c]] = <<>>
        /\ completed # {}

\* C21: cleanup_dead_agents never removes the records of an agent whose
\* lease is live at that moment: the pipeline of its deregister runs only
\* for an id whose lease key does not exist
C21_SweepSparesLive ==
    [][sweep.pc = "pipe" /\ sweep'.pc # "pipe" => ~IsHealthy(reg, sweep.arg)]_vars

\* the registered agents of domain type t with status active and a lease
ActiveLive(R, t) ==
    {a \in R.all : LET g == GetAgent(R, a)
                   IN  /\ g.kind = "agent"
                       /\ g.domain_type = t
                       /\ g.status = "active"
                       /\ IsHealthy(R, a)}

\* C22: find_available_domain(t) returns None when no registered agent of
\* domain type t has status active and a live lease, and otherwise returns
\* one of the agents that have
C22_FindAvailable ==
    [][\A t \in RegTypes :
         FindAvailable(t)
           => IF ActiveLive(reg, t) = {}
              THEN rret'.val = "none"
              ELSE rret'.val = "agent" /\ rret'.agent \in ActiveLive(reg, t)]_vars

\* the registered agents (members of agents:all with a record) whose record
\* has the role main
Coordinators(R) ==
    {a \in R.all : GetAgent(R, a).kind # "none" /\ GetAgent(R, a).role = "main"}

\* C23: at most one registered agent has the role main
C23_OneCoordinator == Cardinality(Coordinators(reg)) <= 1

\* C24: when two concurrent register calls for one agent_id have both
\* finished, the record, the memberships and the lease of the agent are what
\* one of the two calls gives when it runs alone from the state the pair
\* started in
C24_ConcurrentRegister ==
    rcalls.pc = "done"
      => \E i \in {1, 2} :
            AgentKeys(reg, rcalls.agent)
              = AgentKeys(RegisterStore(rcalls.base, rcalls.agent,
                                        rcalls.args[i][1], rcalls.args[i][2],
                                        now),
                          rcalls.agent)

\* --------------------------------------------------- spawner properties
\* C25: spawn_domain with wait_for_start returns the domain id only from a
\* poll that sees the container running before the deadline; a poll before
\* the deadline that sees it exited or dead raises a DockerException with
\* the container's logs; at the deadline the call raises a DockerException;
\* without wait_for_start the call returns without a poll
C25_SpawnWait ==
    [][/\ (spn.pc = "wait" /\ spn'.pc = "idle")
          => /\ spn'.ret.kind = "value"
                  => /\ spn'.ret.val = spn.id
                     /\ dock[spn.id].status = "running"
                     /\ now < spn.deadline
             /\ (now < spn.deadline /\ dock[spn.id].status \in {"exited", "dead"})
                  => /\ spn'.ret.kind = "DockerException"
                     /\ spn'.ret.logs = Logs(spn.id)
             /\ now >= spn.deadline => spn'.ret.kind = "DockerException"
       /\ (spn.pc = "idle" /\ spn'.pc = "idle" /\ spn'.op = "spawn_domain"
              /\ spn' # spn)
          => /\ ~spn'.polled
             /\ dock' # dock => spn'.ret = Value(spn'.id)]_vars

\* a spawn_domain call that waited has returned its domain id
C25_Witness ==
    /\ spn.op = "spawn_domain"
    /\ spn.pc = "idle"
    /\ spn.polled
    /\ spn.ret = Value(spn.id)

\* C26: stop_domain returns False and leaves the runtime as it is when no
\* container carries the domain-id label; a call that returns True has made
\* the stop request and then the remove request, and the container is gone
\* (get_domain gives None); a remove request that removes the container makes
\* the call return True
C26_StopDomain ==
    [][/\ (spn.pc = "idle" /\ spn'.op = "stop_domain" /\ spn' # spn
              /\ FindContainerByDomainId(dock, spn'.id) = None)
          => /\ spn'.pc = "idle"
             /\ spn'.ret = Value("False")
             /\ dock' = dock
       /\ (spn.op = "stop_domain" /\ spn.pc # "idle" /\ spn'.pc = "idle"
              /\ spn'.ret = Value("True"))
          => /\ spn'.calls = <<"list", "stop", "remove">>
             /\ GetDomain(dock', spn.id) = NoDomain
       /\ (spn.op = "stop_domain" /\ spn.pc = "remove" /\ spn'.pc = "idle"
              /\ dock'[spn.id].status = "removed")
          => spn'.ret = Value("True")]_vars

\* a stop_domain call has returned True and its container is removed
C26_Witness ==
    /\ spn.op = "stop_domain"
    /\ spn.pc = "idle"
    /\ spn.ret = Value("True")
    /\ dock[spn.id].status = "removed"

\* C27: is_domain_healthy is True exactly when a container with the domain
\* id exists, its status is running, and its attributes hold no health
\* status or the health status healthy
C27_IsDomainHealthy ==
    [][\A c \in DomainIds :
         (spn'.op = "is_domain_healthy" /\ spn'.id = c /\ spn' # spn)
           => /\ spn'.ret.val \in {"True", "False"}
              /\ spn'.ret.val = "True"
                   <=> /\ ContainerExists(dock, c)
                       /\ dock[c].status = "running"
                       /\ dock[c].health \in {None, "healthy"}]_vars

\* is_domain_healthy has returned True for a running container whose probe
\* reports healthy
C27_Witness ==
    /\ spn.op = "is_domain_healthy"
    /\ spn.ret = Value("True")
    /\ dock[spn.id].status = "running"
    /\ dock[spn.id].health = "healthy"

\* C28: a stop or remove request of cleanup_stopped that changes a container
\* acts on a container that is exited or dead at that moment: a container
\* that is running, also one the runtime started again after it was listed,
\* is neither stopped nor removed
C28_CleanupStopped ==
    [][(spn.op = "cleanup_stopped" /\ spn.pc \in {"stop", "remove"}
          /\ spn' # spn /\ dock' # dock)
         => dock[spn.id].status \in {"exited", "dead"}]_vars

\* --------------------------------------------------- messaging properties
\* C29: the status of every result record is one of pending, in_progress,
\* completed, failed
C29_StatusValues ==
    \A id \in TaskIds :
        Exists(results[id])
          => StatusOf(results[id]) \in {"pending", "in_progress", "completed", "failed"}

\* C30: set_busy and set_active return True whatever the status of the agent
\* is, and change the status field of its record and nothing else: the other
\* fields of the record, the records of the other agents, the membership
\* sets and the leases stay as they are
C30_StatusFrame ==
    [][\A a \in Agents : \A st \in Statuses :
         (rret'.op = "update_status" /\ rret'.agent = a /\ UpdateStatus(a, st))
           => /\ rret'.val = "True"
              /\ reg'.info[a]["status"] = st
              /\ \A f \in DOMAIN reg.info[a] \ {"status"} :
                    f \in DOMAIN reg'.info[a] /\ reg'.info[a][f] = reg.info[a][f]
              /\ DOMAIN reg'.info[a] = DOMAIN reg.info[a] \cup {"status"}
              /\ \A b \in Agents \ {a} : reg'.info[b] = reg.info[b]
              /\ reg'.all = reg.all
              /\ reg'.main = reg.main
              /\ reg'.domains = reg.domains
              /\ reg'.byType = reg.byType
              /\ reg'.workers = reg.workers
              /\ reg'.heartbeat = reg.heartbeat]_vars

\* set_busy has returned True for a registered domain agent, which is still
\* a domain agent of its type with its lease
C30_Witness ==
    /\ rret = Returned("update_status", "a1", "True")
    /\ "a1" \in reg.all
    /\ "a1" \in reg.byType["backend"]
    /\ GetAgent(reg, "a1").kind = "agent"
    /\ GetAgent(reg, "a1").status = "busy"
    /\ GetAgent(reg, "a1").role = "domain"
    /\ IsHealthy(reg, "a1")

\* ----------------------------------------------- registry properties, 2
\* C31: the expiry of a lease removes the lease key and nothing else, so
\* get_agent and list_agents return what they returned before; a record or a
\* membership in agents:all goes away only in a deregister or a
\* cleanup_dead_agents call
C31_ExpiryFrame ==
    [][\A a \in Agents :
         /\ (IsHealthy(reg, a) /\ ~IsHealthy(reg', a) /\ rret'.op = "none")
              => /\ reg' = [reg EXCEPT !.heartbeat[a] = None]
                 /\ GetAgent(reg', a) = GetAgent(reg, a)
                 /\ ListAgents(reg') = ListAgents(reg)
         /\ (\/ a \in reg.all /\ a \notin reg'.all
             \/ DOMAIN reg.info[a] # {} /\ DOMAIN reg'.info[a] = {})
              => rret'.op \in {"deregister", "cleanup_dead_agents"}]_vars

\* the lease of a registered agent has expired, and get_agent and
\* list_agents return the agent
C31_Witness ==
    /\ "a1" \in reg.all
    /\ ~IsHealthy(reg, "a1")
    /\ GetAgent(reg, "a1").kind = "agent"
    /\ GetAgent(reg, "a1") \in ListAgents(reg)
    /\ rret.op = "none"

\* C32: once the agents have stopped registering and heartbeating, every
\* agent is eventually in no membership set and has no info record
C32_EventuallyGone ==
    \A a \in Agents :
        (now = MaxTime) ~> (a \notin Members(reg) /\ DOMAIN reg.info[a] = {})

\* --------------------------------------------------- messaging properties, 2
\* the number of occurrences of x in a list, and the list without them
Count(list, x) == Cardinality({i \in DOMAIN list : list[i] = x})
Without(list, x) ==
    LET Other(e) == e # x
    IN  SelectSeq(list, Other)

\* C33: complete_task(D, task) removes one occurrence of the task from
\* active[D] when there is one and nothing when there is none; the other
\* tasks of active[D] stay in their order, and the pending lists, the active
\* lists of the other domains and the result records stay as they are
C33_CompleteFrame ==
    [][(active' # active \/ completed' # completed)
         => \A d \in Domains : \A id \in TaskIds :
         SeqCompleteTask(d, id)
           => LET t == TaskMessage(id, DestOf(id))
                  n == Count(active[d], t)
              IN  /\ Count(active'[d], t) = IF n > 0 THEN n - 1 ELSE 0
                  /\ Without(active'[d], t) = Without(active[d], t)
                  /\ \A e \in Domains \ {d} : active'[e] = active[e]
                  /\ pending' = pending
                  /\ results' = results]_vars

\* complete_task has removed a task from an active list that still holds
\* another task
C33_Witness ==
    \E d \in Domains : \E id \in completed :
        /\ \E i \in DOMAIN popped[d] : popped[d][i] = id
        /\ ~InActive(id)
        /\ active[d] # <<>>

\* C34: every task the runner dequeues is eventually completed by it: the
\* runner publishes a result with status completed or failed and then
\* removes the task from active[D], on every path through process_task,
\* the paths where a store call raises included; no dequeued task stays in
\* active[D] for ever
C34_EventuallyCompleted ==
    \A id \in TaskIds :
        InActive(id) ~> (~InActive(id) /\ id \in completed)

\* C35: a runner that holds a dequeued task, or whose heartbeat lease has
\* been written, is registered: its agent id is a member of agents:all and
\* of the domain sets of its domain type and its info record is complete
C35_RegisteredFirst ==
    \A c \in LiveConsumers :
        LET a == RunnerAgent[c]
        IN  (ctask[c] # NoTask \/ reg.heartbeat[a] # None)
              => /\ a \in reg.all
                 /\ a \in reg.domains
                 /\ GetAgent(reg, a).kind = "agent"

\* C36: while an agent of role main is registered, get_main_orchestrator
\* returns it: when it returns a registered coordinator B, deregistering
\* another agent A leaves B what it returns (register main A, then main B,
\* then deregister A: still B, not None)
C36_MainFound ==
    [][\A a \in Agents :
         (/\ rret'.op = "deregister" /\ rret'.agent = a
          /\ GetMainOrchestrator(reg).kind = "agent"
          /\ GetMainOrchestrator(reg).role = "main"
          /\ GetMainOrchestrator(reg).agent_id \in reg.all \ {a})
           => GetMainOrchestrator(reg') = GetMainOrchestrator(reg)]_vars

\* the calls of get_next_task that returned the task id, over all domains
Returns(id) ==
    {<<d, i>> \in Domains \X (1..MaxTasks) : i <= Len(popped[d]) /\ popped[d][i] = id}

\* C37: with several consumers calling get_next_task concurrently, every
\* task is returned by at most one call, and two consumers that hold a task
\* at the same time hold different tasks
C37_ReturnedOnce ==
    /\ \A id \in TaskIds : Cardinality(Returns(id)) <= 1
    /\ \A d \in Domains : Len(popped[d]) <= MaxTasks
    /\ \A c1, c2 \in Consumers :
          c1 # c2 /\ ctask[c1] # NoTask => ctask[c1].task_id # ctask[c2].task_id

\* two consumers hold tasks of one domain at the same time
C37_Witness ==
    /\ ctask["c1"] # NoTask
    /\ ctask["c2"] # NoTask
    /\ ctask["c1"].destination = ctask["c2"].destination
    /\ cpc["c1"] # "crashed"
    /\ cpc["c2"] # "crashed"

\* C38: every existing result record holds the fields task_id and status,
\* and get_result builds a TaskResult from it
C38_RecordComplete ==
    \A id \in TaskIds :
        Exists(results[id])
          => /\ {"task_id", "status"} \subseteq DOMAIN results[id]
             /\ GetResult(results[id]).kind = "result"

\* C39: every existing info record belongs to a member of agents:all and
\* holds the fields agent_id and role, so that get_agent builds an AgentInfo
\* from it
C39_InfoComplete ==
    \A a \in Agents :
        DOMAIN reg.info[a] # {}
          => /\ a \in reg.all
             /\ {"agent_id", "role"} \subseteq DOMAIN reg.info[a]
             /\ GetAgent(reg, a).kind = "agent"

\* C40: a registered runner that is running its loop is healthy in every
\* state, also while it processes a task that takes longer than the lease
\* TTL, and cleanup_dead_agents never removes it
C40_LiveRunnerHealthy ==
    \A c \in LiveConsumers :
        LET a == RunnerAgent[c]
        IN  /\ a \in reg.all => IsHealthy(reg, a)
            /\ a \notin rret.removed

====
